---- MODULE Spec2Model ----
(***************************************************************************)
(* Model of the quota ledger (src/lib/quota.ts), the constants it reads    *)
(* (src/lib/constants.ts) and the upload route (src/routes/upload.ts) of   *)
(* the Repliz uploader.                                                    *)
(*                                                                         *)
(* Units.  TLC integers are 32 bit, and 30 days in milliseconds and 5 GiB  *)
(* in bytes do not fit.  The clock therefore counts seconds (every         *)
(* duration of the source is a whole number of seconds) and sizes count    *)
(* KiB (every limit of the source is a whole number of KiB).  Comparisons  *)
(* and sums are the source's.                                              *)
(***************************************************************************)
EXTENDS Integers, Sequences, FiniteSets, TLC

(***************************************************************************)
(* Bounds of the model.                                                    *)
(***************************************************************************)
\* number of quota-ledger calls in one behaviour, made one after the other
MaxCalls == 3
\* number of clock advances in one behaviour
MaxTicks == 2
\* number of quota-ledger calls in one behaviour of concurrent calls
MaxConcCalls == 2
\* number of upload requests in one behaviour
MaxRequests == 3
\* number of cleanup runs in one behaviour
MaxSweeps == 2
\* number of deleteUpload calls in one behaviour
MaxDeletes == 2
\* number of uploads, cleanup runs and deleteUpload calls interleaved in one behaviour
MaxLifecycleOps == 3
\* number of requests that reach the rate limiter in one behaviour
MaxLimiterRequests == 2
\* number of ledger calls of the concurrent uploads that check before they increment
MaxGatedCalls == 4

Users == {"u1", "u2"}
\* processes (requests) that call into the quota ledger
Procs == {1, 2}

(***************************************************************************)
(* src/lib/constants.ts                                                    *)
(***************************************************************************)
MAX_DAILY_UPLOADS == 10
MAX_MONTHLY_UPLOADS == 100
\* 500 * 1024 * 1024 bytes, in KiB
MAX_DAILY_BYTES == 500 * 1024
\* 5 * 1024 * 1024 * 1024 bytes, in KiB
MAX_MONTHLY_BYTES == 5 * 1024 * 1024

\* 24 * 60 * 60 * 1000 ms, in seconds
dayInMs == 24 * 60 * 60
\* 30 * 24 * 60 * 60 * 1000 ms, in seconds
monthInMs == 30 * 24 * 60 * 60

(***************************************************************************)
(* Inputs.                                                                 *)
(***************************************************************************)
\* fileSizeBytes arguments (KiB): one unit, and a whole daily allowance
ByteArgs == {1, MAX_DAILY_BYTES}
\* clock advances: one second, and one second less than a day
TickSet == {1, dayInMs - 1}
\* the clock of the initial state
StartTime == monthInMs

Max(a, b) == IF a >= b THEN a ELSE b

VARIABLES
    now,          \* the wall clock, new Date()
    userQuotas,   \* the user_quotas table: a set of rows
    call,         \* per process: the quota-ledger call it is executing
    calls,        \* number of calls begun so far
    ticks,        \* number of clock advances so far
    store,        \* the R2 bucket c.env.UPLOADS: the keys that hold an object
    req,          \* the upload request being handled
    nextId,       \* number of ids generateId() has handed out
    requests,     \* number of upload requests begun so far
    okUploads,    \* per user: uploads answered with success in this window
    uploads,      \* the uploads table: a set of lifecycle records
    sweep,        \* per process: the cleanup run it is executing
    del,          \* per process: the deleteUpload call it is executing
    kv,           \* c.env.RATE_LIMIT_KV: per key, the stored count and its expiry
    rl,           \* per process: the rate-limit middleware call it is executing
    admitted      \* per key: the times at which the limiter counted a request in

ledgerVars == <<now, userQuotas, call, calls, ticks>>
uploadVars == <<store, req, nextId, requests, okUploads>>
lifecycleVars == <<uploads, sweep, del>>
limiterVars == <<kv, rl, admitted>>
vars ==
    <<now, userQuotas, call, calls, ticks, store, req, nextId, requests, okUploads,
      uploads, sweep, del, kv, rl, admitted>>

(***************************************************************************)
(* The user_quotas table.                                                  *)
(***************************************************************************)
\* db.select().from(userQuotas).where(eq(userQuotas.userId, userId)).get():
\* the set holding the matching row, empty when there is none
SelectQuota(table, userId) == {q \in table : q.userId = userId}

Row(rows) == CHOOSE q \in rows : TRUE

\* the row checkQuota creates for a new user
NewQuota(userId, t) ==
    [userId |-> userId,
     dailyUploads |-> 0, monthlyUploads |-> 0,
     dailyBytesUsed |-> 0, monthlyBytesUsed |-> 0,
     lastResetDaily |-> t, lastResetMonthly |-> t, updatedAt |-> t]

\* .set({...}): the named columns take the given values
SetColumns(q, values) == values @@ q

\* an UPDATE without its WHERE clause
UpdateQuotaEveryRow(table, userId, values) ==
    {SetColumns(q, values) : q \in table}

\* db.update(userQuotas).set(values).where(eq(userQuotas.userId, userId))
UpdateQuota(table, userId, values) ==
    {IF q.userId = userId THEN SetColumns(q, values) ELSE q : q \in table}

(***************************************************************************)
(* checkQuota: the decision on the (possibly reset) local copy.            *)
(***************************************************************************)
Current(q) ==
    [dailyUploads |-> q.dailyUploads, monthlyUploads |-> q.monthlyUploads,
     dailyBytes |-> q.dailyBytesUsed, monthlyBytes |-> q.monthlyBytesUsed]

\* the monthly count checked before the daily count
QuotaStatusMonthlyFirst(q, fileSizeBytes) ==
    IF q.monthlyUploads >= MAX_MONTHLY_UPLOADS
    THEN [allowed |-> FALSE, reason |-> "monthly_uploads", current |-> Current(q)]
    ELSE IF q.dailyUploads >= MAX_DAILY_UPLOADS
    THEN [allowed |-> FALSE, reason |-> "daily_uploads", current |-> Current(q)]
    ELSE IF q.dailyBytesUsed + fileSizeBytes > MAX_DAILY_BYTES
    THEN [allowed |-> FALSE, reason |-> "daily_bytes", current |-> Current(q)]
    ELSE IF q.monthlyBytesUsed + fileSizeBytes > MAX_MONTHLY_BYTES
    THEN [allowed |-> FALSE, reason |-> "monthly_bytes", current |-> Current(q)]
    ELSE [allowed |-> TRUE, reason |-> "none", current |-> Current(q)]

QuotaStatus(q, fileSizeBytes) ==
    IF q.dailyUploads >= MAX_DAILY_UPLOADS
    THEN [allowed |-> FALSE, reason |-> "daily_uploads", current |-> Current(q)]
    ELSE IF q.monthlyUploads >= MAX_MONTHLY_UPLOADS
    THEN [allowed |-> FALSE, reason |-> "monthly_uploads", current |-> Current(q)]
    ELSE IF q.dailyBytesUsed + fileSizeBytes > MAX_DAILY_BYTES
    THEN [allowed |-> FALSE, reason |-> "daily_bytes", current |-> Current(q)]
    ELSE IF q.monthlyBytesUsed + fileSizeBytes > MAX_MONTHLY_BYTES
    THEN [allowed |-> FALSE, reason |-> "monthly_bytes", current |-> Current(q)]
    ELSE [allowed |-> TRUE, reason |-> "none", current |-> Current(q)]

\* the daily window compared with > instead of >=
DailyStaleStrict(q, t) == t - q.lastResetDaily > dayInMs

DailyStale(q, t) == t - q.lastResetDaily >= dayInMs
MonthlyStale(q, t) == t - q.lastResetMonthly >= monthInMs

\* a daily reset that also clears the monthly counters
DailyResetAll(t) ==
    [dailyUploads |-> 0, dailyBytesUsed |-> 0,
     monthlyUploads |-> 0, monthlyBytesUsed |-> 0,
     lastResetDaily |-> t, updatedAt |-> t]

\* the columns the daily reset writes to the table
DailyReset(t) ==
    [dailyUploads |-> 0, dailyBytesUsed |-> 0, lastResetDaily |-> t, updatedAt |-> t]

\* the columns the monthly reset writes to the table
MonthlyReset(t) ==
    [monthlyUploads |-> 0, monthlyBytesUsed |-> 0, lastResetMonthly |-> t, updatedAt |-> t]

\* the fields the resets assign on the local object: updatedAt is set in
\* the table only
LocalDailyReset(t) ==
    [dailyUploads |-> 0, dailyBytesUsed |-> 0, lastResetDaily |-> t]

LocalMonthlyReset(t) ==
    [monthlyUploads |-> 0, monthlyBytesUsed |-> 0, lastResetMonthly |-> t]

(***************************************************************************)
(* incrementQuota / decrementQuota: the values written, computed from the  *)
(* row read before.                                                        *)
(***************************************************************************)
\* an increment that forgets the monthly byte total
IncrementedDailyBytesOnly(read, fileSizeBytes, t) ==
    [dailyUploads |-> read.dailyUploads + 1,
     monthlyUploads |-> read.monthlyUploads + 1,
     dailyBytesUsed |-> read.dailyBytesUsed + fileSizeBytes,
     monthlyBytesUsed |-> read.monthlyBytesUsed,
     updatedAt |-> t]

Incremented(read, fileSizeBytes, t) ==
    [dailyUploads |-> read.dailyUploads + 1,
     monthlyUploads |-> read.monthlyUploads + 1,
     dailyBytesUsed |-> read.dailyBytesUsed + fileSizeBytes,
     monthlyBytesUsed |-> read.monthlyBytesUsed + fileSizeBytes,
     updatedAt |-> t]

\* a decrement without the clamp
DecrementedUnclamped(read, fileSizeBytes, t) ==
    [dailyUploads |-> read.dailyUploads - 1,
     monthlyUploads |-> read.monthlyUploads - 1,
     dailyBytesUsed |-> read.dailyBytesUsed - fileSizeBytes,
     monthlyBytesUsed |-> read.monthlyBytesUsed - fileSizeBytes,
     updatedAt |-> t]

\* a decrement that gives back the upload but not its bytes
DecrementedCountsOnly(read, fileSizeBytes, t) ==
    [dailyUploads |-> Max(0, read.dailyUploads - 1),
     monthlyUploads |-> Max(0, read.monthlyUploads - 1),
     dailyBytesUsed |-> read.dailyBytesUsed,
     monthlyBytesUsed |-> read.monthlyBytesUsed,
     updatedAt |-> t]

Decremented(read, fileSizeBytes, t) ==
    [dailyUploads |-> Max(0, read.dailyUploads - 1),
     monthlyUploads |-> Max(0, read.monthlyUploads - 1),
     dailyBytesUsed |-> Max(0, read.dailyBytesUsed - fileSizeBytes),
     monthlyBytesUsed |-> Max(0, read.monthlyBytesUsed - fileSizeBytes),
     updatedAt |-> t]

(***************************************************************************)
(* Calls in progress.                                                      *)
(***************************************************************************)
NoResult == [allowed |-> FALSE, reason |-> "pending",
             current |-> [dailyUploads |-> 0, monthlyUploads |-> 0,
                          dailyBytes |-> 0, monthlyBytes |-> 0]]

IdleCall ==
    [op |-> "idle", pc |-> "idle", userId |-> "u1", fileSizeBytes |-> 0,
     now |-> 0, quota |-> {}, result |-> NoResult, threw |-> FALSE,
     pre |-> {}]

Quiet == \A p \in Procs : call[p].pc \in {"idle", "done"}

Begin(p, op, userId, fileSizeBytes, maxCalls) ==
    /\ call[p].pc \in {"idle", "done"}
    /\ calls < maxCalls
    /\ calls' = calls + 1
    /\ call' = [call EXCEPT ![p] =
                  [op |-> op, pc |-> "select", userId |-> userId,
                   fileSizeBytes |-> fileSizeBytes, now |-> now, quota |-> {},
                   result |-> NoResult, threw |-> FALSE,
                   pre |-> userQuotas]]
    /\ UNCHANGED <<now, userQuotas, ticks>>

(***************************************************************************)
(* checkQuota, one step per database statement.                            *)
(***************************************************************************)
CheckSelect(p) ==
    /\ call[p].op = "check" /\ call[p].pc = "select"
    /\ LET rows == SelectQuota(userQuotas, call[p].userId) IN
       IF rows = {}
       THEN call' = [call EXCEPT ![p].quota = {NewQuota(call[p].userId, call[p].now)},
                                 ![p].pc = "insert"]
       ELSE call' = [call EXCEPT ![p].quota = rows, ![p].pc = "daily"]
    /\ UNCHANGED <<now, userQuotas, calls, ticks>>

\* db.insert(userQuotas).values(quota).run(); user_quotas_user_id_unique
\* makes the statement fail when a row of the user exists by now
CheckInsert(p) ==
    /\ call[p].op = "check" /\ call[p].pc = "insert"
    /\ IF SelectQuota(userQuotas, call[p].userId) # {}
       THEN /\ call' = [call EXCEPT ![p].threw = TRUE, ![p].pc = "done"]
            /\ UNCHANGED userQuotas
       ELSE /\ userQuotas' = userQuotas \cup call[p].quota
            /\ call' = [call EXCEPT ![p].pc = "daily"]
    /\ UNCHANGED <<now, calls, ticks>>

CheckDaily(p) ==
    /\ call[p].op = "check" /\ call[p].pc = "daily"
    /\ LET q == Row(call[p].quota)
           t == call[p].now IN
       IF DailyStale(q, t)
       THEN /\ call' = [call EXCEPT ![p].quota = {SetColumns(q, LocalDailyReset(t))},
                                    ![p].pc = "monthly"]
            /\ userQuotas' = UpdateQuota(userQuotas, call[p].userId, DailyReset(t))
       ELSE /\ call' = [call EXCEPT ![p].pc = "monthly"]
            /\ UNCHANGED userQuotas
    /\ UNCHANGED <<now, calls, ticks>>

CheckMonthly(p) ==
    /\ call[p].op = "check" /\ call[p].pc = "monthly"
    /\ LET q == Row(call[p].quota)
           t == call[p].now IN
       IF MonthlyStale(q, t)
       THEN /\ call' = [call EXCEPT ![p].quota = {SetColumns(q, LocalMonthlyReset(t))},
                                    ![p].pc = "decide"]
            /\ userQuotas' = UpdateQuota(userQuotas, call[p].userId, MonthlyReset(t))
       ELSE /\ call' = [call EXCEPT ![p].pc = "decide"]
            /\ UNCHANGED userQuotas
    /\ UNCHANGED <<now, calls, ticks>>

CheckReturn(p) ==
    /\ call[p].op = "check" /\ call[p].pc = "decide"
    /\ call' = [call EXCEPT ![p].result =
                    QuotaStatus(Row(call[p].quota), call[p].fileSizeBytes),
                            ![p].pc = "done"]
    /\ UNCHANGED <<now, userQuotas, calls, ticks>>

(***************************************************************************)
(* incrementQuota                                                          *)
(***************************************************************************)
IncrementSelect(p) ==
    /\ call[p].op = "increment" /\ call[p].pc = "select"
    /\ LET rows == SelectQuota(userQuotas, call[p].userId) IN
       IF rows = {}
       THEN call' = [call EXCEPT ![p].threw = TRUE, ![p].pc = "done"]
       ELSE call' = [call EXCEPT ![p].quota = rows, ![p].pc = "update"]
    /\ UNCHANGED <<now, userQuotas, calls, ticks>>

IncrementUpdate(p) ==
    /\ call[p].op = "increment" /\ call[p].pc = "update"
    /\ LET v == Incremented(Row(call[p].quota), call[p].fileSizeBytes, call[p].now) IN
       userQuotas' = UpdateQuota(userQuotas, call[p].userId, v)
    /\ call' = [call EXCEPT ![p].pc = "done"]
    /\ UNCHANGED <<now, calls, ticks>>

(***************************************************************************)
(* decrementQuota                                                          *)
(***************************************************************************)

\* a rollback that finds the row and leaves it as it is
DecrementSelectOnly(p) ==
    /\ call[p].op = "decrement" /\ call[p].pc = "select"
    /\ call' = [call EXCEPT ![p].pc = "done"]
    /\ UNCHANGED <<now, userQuotas, calls, ticks>>

DecrementSelect(p) ==
    /\ call[p].op = "decrement" /\ call[p].pc = "select"
    /\ LET rows == SelectQuota(userQuotas, call[p].userId) IN
       IF rows = {}
       THEN call' = [call EXCEPT ![p].pc = "done"]
       ELSE call' = [call EXCEPT ![p].quota = rows, ![p].pc = "update"]
    /\ UNCHANGED <<now, userQuotas, calls, ticks>>

DecrementUpdate(p) ==
    /\ call[p].op = "decrement" /\ call[p].pc = "update"
    /\ LET v == Decremented(Row(call[p].quota), call[p].fileSizeBytes, call[p].now) IN
       userQuotas' = UpdateQuota(userQuotas, call[p].userId, v)
    /\ call' = [call EXCEPT ![p].pc = "done"]
    /\ UNCHANGED <<now, calls, ticks>>

(***************************************************************************)
(* The clock.                                                              *)
(***************************************************************************)
Tick(d) ==
    /\ ticks < MaxTicks
    /\ ticks' = ticks + 1
    /\ now' = now + d
    /\ UNCHANGED <<userQuotas, call, calls>>

(***************************************************************************)
(* The upload route, src/routes/upload.ts: POST /api/upload.               *)
(*                                                                         *)
(* A title or description is modelled by its length, a media type by the   *)
(* pair <<type, subtype>> and an object key `${generateId()}${extension}`  *)
(* by the pair <<id, extension>>.  One request is handled at a time:       *)
(* requests share nothing but the bucket, where each writes under its own  *)
(* fresh key.                                                              *)
(***************************************************************************)
\* src/lib/utils.ts; 50 * 1024 * 1024 bytes, in KiB
MAX_FILE_SIZE == 50 * 1024

ALLOWED_VIDEO_TYPES ==
    {<<"video", "mp4">>, <<"video", "mpeg">>, <<"video", "quicktime">>,
     <<"video", "x-msvideo">>, <<"video", "webm">>}

\* mutant: the metadata schema is not applied
MetadataValidAny(titleLen, descLen) == TRUE

\* uploadMetadataSchema.parse succeeds
MetadataValid(titleLen, descLen) ==
    /\ titleLen >= 1 /\ titleLen <= 200
    /\ descLen >= 1 /\ descLen <= 2000

getExtensionFromMime(mimeType) ==
    CASE mimeType = <<"video", "mp4">> -> ".mp4"
      [] mimeType = <<"video", "mpeg">> -> ".mpeg"
      [] mimeType = <<"video", "quicktime">> -> ".mov"
      [] mimeType = <<"video", "x-msvideo">> -> ".avi"
      [] mimeType = <<"video", "webm">> -> ".webm"
      [] OTHER -> ".mp4"

\* videoUrl = `https://post.komen.autos/${filename}`
VideoUrl(filename) == <<"https://post.komen.autos/", filename>>

\* the connected accounts the aggregator may list
Tiktok == [id |-> "a1", name |-> "n1", type |-> "tiktok"]
Instagram == [id |-> "a2", name |-> "n2", type |-> "instagram"]
Facebook == [id |-> "a3", name |-> "n3", type |-> "facebook"]
AccountLists == {<<>>, <<Tiktok>>, <<Instagram, Tiktok>>, <<Tiktok, Instagram, Facebook>>}

\* the optional 'platforms' form field, split at the commas
NoPlatforms == [given |-> FALSE, list |-> {}]
PlatformFilters ==
    {NoPlatforms, [given |-> TRUE, list |-> {"tiktok"}],
     [given |-> TRUE, list |-> {"youtube"}]}

\* multipart forms: a valid one, valid ones on the boundaries, and one for
\* each way of being invalid
ValidForm ==
    [video |-> TRUE, type |-> <<"video", "mp4">>, size |-> 1024,
     titleLen |-> 1, descLen |-> 1, platforms |-> NoPlatforms]

Forms ==
    {[ValidForm EXCEPT !.platforms = f] : f \in PlatformFilters} \cup
    {[ValidForm EXCEPT !.type = <<"video", "quicktime">>, !.size = MAX_FILE_SIZE,
                       !.titleLen = 200, !.descLen = 2000],
     [ValidForm EXCEPT !.video = FALSE],
     [ValidForm EXCEPT !.titleLen = 0],
     [ValidForm EXCEPT !.descLen = 0],
     [ValidForm EXCEPT !.titleLen = 201],
     [ValidForm EXCEPT !.descLen = 2001],
     [ValidForm EXCEPT !.type = <<"image", "png">>],
     [ValidForm EXCEPT !.type = <<"video", "x-flv">>],
     [ValidForm EXCEPT !.size = MAX_FILE_SIZE + 1]}

\* what the request finds before it reads the form
Environments == {"ok", "no_user", "no_keys", "no_secret", "decrypt_throws", "form_throws"}

NoFile == <<0, "">>
NoResponse == [statusCode |-> 0, error |-> "", success |-> FALSE, results |-> <<>>]
ErrorResponse(code, error, results) ==
    [statusCode |-> code, error |-> error, success |-> FALSE, results |-> results]

IdleReq ==
    [pc |-> "idle", userId |-> "u1", form |-> ValidForm, filename |-> NoFile,
     uploadedFilename |-> NoFile, accounts |-> <<>>, targetAccounts |-> <<>>,
     results |-> <<>>, scheduled |-> <<>>, response |-> NoResponse, log |-> <<>>,
     responses |-> <<>>, putAt |-> 0, pre |-> [store |-> {}, userQuotas |-> {}, uploads |-> {}]]

Reply(response) ==
    req' = [req EXCEPT !.pc = "done", !.response = response]

\* lines 35-75: the route is entered; requireAuth, the key lookup, the
\* secret, the decryption and the form parsing end the request before
\* anything is validated
UploadBegin(u, form, env) ==
    /\ req.pc \in {"idle", "done"}
    /\ requests < MaxRequests
    /\ requests' = requests + 1
    /\ LET r == [IdleReq EXCEPT
                   !.userId = u, !.form = form,
                   !.pre = [store |-> store, userQuotas |-> userQuotas, uploads |-> uploads]] IN
       req' = CASE env = "no_user" ->
                     [r EXCEPT !.pc = "done", !.response = ErrorResponse(401, "Unauthorized", <<>>)]
                [] env = "no_keys" ->
                     [r EXCEPT !.pc = "done", !.response = ErrorResponse(400, "keys_not_found", <<>>)]
                [] env = "no_secret" ->
                     [r EXCEPT !.pc = "done", !.response = ErrorResponse(500, "secret_not_set", <<>>)]
                [] env \in {"decrypt_throws", "form_throws"} ->
                     [r EXCEPT !.pc = "catch"]
                [] OTHER -> [r EXCEPT !.pc = "validate"]
    /\ UNCHANGED <<store, nextId, okUploads>>

\* lines 77-118: validation, then the key is generated
UploadValidate ==
    /\ req.pc = "validate"
    /\ LET f == req.form
           logged == [req EXCEPT !.log = Append(@, "validate")] IN
       IF ~f.video \/ f.titleLen = 0 \/ f.descLen = 0
       THEN /\ req' = [logged EXCEPT !.pc = "done",
                          !.response = ErrorResponse(400, "missing_fields", <<>>)]
            /\ UNCHANGED nextId
       ELSE IF ~MetadataValid(f.titleLen, f.descLen)
       THEN /\ req' = [logged EXCEPT !.pc = "catch"]
            /\ UNCHANGED nextId
       ELSE IF f.type[1] # "video"
       THEN /\ req' = [logged EXCEPT !.pc = "done",
                          !.response = ErrorResponse(400, "invalid_file_type", <<>>)]
            /\ UNCHANGED nextId
       ELSE IF f.type \notin ALLOWED_VIDEO_TYPES
       THEN /\ req' = [logged EXCEPT !.pc = "done",
                          !.response = ErrorResponse(400, "unsupported_video_type", <<>>)]
            /\ UNCHANGED nextId
       ELSE IF f.size > MAX_FILE_SIZE
       THEN /\ req' = [logged EXCEPT !.pc = "done",
                          !.response = ErrorResponse(400, "file_too_large", <<>>)]
            /\ UNCHANGED nextId
       ELSE /\ nextId' = nextId + 1
            /\ req' = [logged EXCEPT !.pc = "put",
                          !.filename = <<nextId + 1, getExtensionFromMime(f.type)>>,
                          !.uploadedFilename = <<nextId + 1, getExtensionFromMime(f.type)>>]
    /\ UNCHANGED <<store, requests, okUploads>>

\* mutant: a put that throws is not noticed
UploadPutUnchecked ==
    /\ req.pc = "put"
    /\ \E ok \in BOOLEAN :
        IF ok
        THEN /\ store' = store \cup {req.filename}
             /\ req' = [req EXCEPT !.pc = "accounts", !.log = Append(@, "put"), !.putAt = now]
        ELSE /\ req' = [req EXCEPT !.pc = "accounts", !.log = Append(@, "put")]
             /\ UNCHANGED store
    /\ UNCHANGED <<nextId, requests, okUploads>>

\* lines 120-125: c.env.UPLOADS.put succeeds or throws
UploadPut ==
    /\ req.pc = "put"
    /\ \E ok \in BOOLEAN :
        IF ok
        THEN /\ store' = store \cup {req.filename}
             /\ req' = [req EXCEPT !.pc = "accounts", !.log = Append(@, "put"), !.putAt = now]
        ELSE /\ req' = [req EXCEPT !.pc = "catch", !.log = Append(@, "put")]
             /\ UNCHANGED store
    /\ UNCHANGED <<nextId, requests, okUploads>>

\* a fan-out that ignores the 'platforms' field
TargetAccountsUnfiltered(accounts, platforms) == accounts

\* accounts.filter(acc => platformsList.includes(acc.type)), or all
TargetAccounts(accounts, platforms) ==
    IF platforms.given
    THEN SelectSeq(accounts, LAMBDA acc : acc.type \in platforms.list)
    ELSE accounts

\* lines 134-175: getAccounts throws or returns the connected accounts
UploadGetAccounts ==
    /\ req.pc = "accounts"
    /\ \/ req' = [req EXCEPT !.pc = "accounts_failed", !.log = Append(@, "getAccounts")]
       \/ \E accounts \in AccountLists :
            req' = [req EXCEPT
                      !.accounts = accounts,
                      !.targetAccounts = TargetAccounts(accounts, req.form.platforms),
                      !.pc = IF Len(accounts) = 0 THEN "no_accounts" ELSE "schedule",
                      !.log = Append(@, "getAccounts")]
    /\ UNCHANGED <<store, nextId, requests, okUploads>>

\* mutant: the uploaded file is not deleted when no target is resolved
UploadCleanUpKeepingFile ==
    /\ req.pc \in {"accounts_failed", "no_accounts"}
    /\ req' = [req EXCEPT
                 !.pc = "done", !.log = Append(@, "delete"),
                 !.response = ErrorResponse(400,
                     IF req.pc = "no_accounts" THEN "no_connected_accounts"
                     ELSE "get_accounts_failed", <<>>)]
    /\ UNCHANGED <<store, nextId, requests, okUploads>>

\* lines 143-147 and 152-159: the uploaded file is deleted and the request
\* answered with 400; a delete that throws lands in the catch block
UploadCleanUp ==
    /\ req.pc \in {"accounts_failed", "no_accounts"}
    /\ \E ok \in BOOLEAN :
        IF ok
        THEN /\ store' = store \ {req.filename}
             /\ req' = [req EXCEPT
                          !.pc = "done", !.log = Append(@, "delete"),
                          !.response = ErrorResponse(400,
                              IF req.pc = "no_accounts" THEN "no_connected_accounts"
                              ELSE "get_accounts_failed", <<>>)]
        ELSE /\ req' = [req EXCEPT !.pc = "catch", !.log = Append(@, "delete")]
             /\ UNCHANGED store
    /\ UNCHANGED <<nextId, requests, okUploads>>

\* mutant: every schedule is a video schedule
ScheduleTypeVideo(account) == "video"

\* line 182
ScheduleType(account) == IF account.type = "tiktok" THEN "video" ELSE "image"

\* lines 184-197
Payload(account, videoUrl) ==
    [type |-> ScheduleType(account), mediaUrl |-> videoUrl,
     thumbnail |-> videoUrl, accountId |-> account.id]

\* src/lib/repliz.ts, lines 96-132: createSchedule returns when the
\* aggregator answers with 200 and throws otherwise
ScheduleStatuses == {200, 401, 500}

createSchedule(status) ==
    CASE status = 200 -> [threw |-> FALSE, message |-> ""]
      [] status = 401 -> [threw |-> TRUE, message |-> "Invalid Repliz credentials"]
      [] status = 402 -> [threw |-> TRUE, message |-> "Invalid Repliz plan"]
      [] OTHER -> [threw |-> TRUE, message |-> "Failed to create schedule"]

\* lines 207-222: the result pushed for an account
UploadResult(account, outcome) ==
    IF outcome.threw
    THEN [accountId |-> account.id, accountName |-> account.name,
          accountType |-> account.type, status |-> "error", error |-> outcome.message]
    ELSE [accountId |-> account.id, accountName |-> account.name,
          accountType |-> account.type, status |-> "success"]

\* mutant: a createSchedule that throws ends the loop
UploadScheduleAbortOnThrow ==
    /\ req.pc = "schedule"
    /\ Len(req.results) < Len(req.targetAccounts)
    /\ LET account == req.targetAccounts[Len(req.results) + 1] IN
       \E status \in ScheduleStatuses :
         req' = [req EXCEPT
                   !.scheduled = Append(@, Payload(account, VideoUrl(req.filename))),
                   !.responses = Append(@, status),
                   !.results = Append(@, UploadResult(account, createSchedule(status))),
                   !.targetAccounts =
                       IF status = 200 THEN @ ELSE SubSeq(@, 1, Len(req.results) + 1),
                   !.log = Append(@, "createSchedule")]
    /\ UNCHANGED <<store, nextId, requests, okUploads>>

\* lines 177-224: one turn of the loop; createSchedule returns or throws
UploadSchedule ==
    /\ req.pc = "schedule"
    /\ Len(req.results) < Len(req.targetAccounts)
    /\ LET account == req.targetAccounts[Len(req.results) + 1] IN
       \E status \in ScheduleStatuses :
         req' = [req EXCEPT
                   !.scheduled = Append(@, Payload(account, VideoUrl(req.filename))),
                   !.responses = Append(@, status),
                   !.results = Append(@, UploadResult(account, createSchedule(status))),
                   !.log = Append(@, "createSchedule")]
    /\ UNCHANGED <<store, nextId, requests, okUploads>>

\* mutant: every result counts as a success
SuccessCountAll(results) == Len(results)

\* results.filter((r) => r.status === 'success').length
SuccessCount(results) ==
    Cardinality({i \in 1..Len(results) : results[i].status = "success"})

\* mutant: a fan-out without success deletes the uploaded file, as a failed
\* resolution does
UploadRespondRollingBack ==
    /\ req.pc = "schedule"
    /\ Len(req.results) = Len(req.targetAccounts)
    /\ IF SuccessCount(req.results) = 0
       THEN /\ Reply(ErrorResponse(500, "failed_to_schedule", req.results))
            /\ store' = store \ {req.filename}
            /\ UNCHANGED okUploads
       ELSE /\ Reply([statusCode |-> 200, error |-> "", success |-> TRUE,
                      message |-> <<"Successfully scheduled to", SuccessCount(req.results),
                                    "out of", Len(req.results), "accounts">>,
                      results |-> req.results])
            /\ okUploads' = [okUploads EXCEPT ![req.userId] = @ + 1]
            /\ UNCHANGED store
    /\ UNCHANGED <<nextId, requests>>

\* lines 231-248: the loop is over, the response is built
UploadRespond ==
    /\ req.pc = "schedule"
    /\ Len(req.results) = Len(req.targetAccounts)
    /\ IF SuccessCount(req.results) = 0
       THEN /\ Reply(ErrorResponse(500, "failed_to_schedule", req.results))
            /\ UNCHANGED okUploads
       ELSE /\ Reply([statusCode |-> 200, error |-> "", success |-> TRUE,
                      message |-> <<"Successfully scheduled to", SuccessCount(req.results),
                                    "out of", Len(req.results), "accounts">>,
                      results |-> req.results])
            /\ okUploads' = [okUploads EXCEPT ![req.userId] = @ + 1]
    /\ UNCHANGED <<store, nextId, requests>>

\* lines 249-265: the catch block; its delete succeeds, or throws and is
\* swallowed
UploadCatch ==
    /\ req.pc = "catch"
    /\ IF req.uploadedFilename # NoFile
       THEN /\ \E ok \in BOOLEAN :
                 store' = IF ok THEN store \ {req.uploadedFilename} ELSE store
            /\ req' = [req EXCEPT !.pc = "done", !.log = Append(@, "delete"),
                          !.response = ErrorResponse(500, "upload_failed", <<>>)]
       ELSE /\ UNCHANGED store
            /\ Reply(ErrorResponse(500, "upload_failed", <<>>))
    /\ UNCHANGED <<nextId, requests, okUploads>>

(***************************************************************************)
(* The lifecycle of stored files, src/lib/cleanup.ts.  A row of the        *)
(* uploads table is a record; timestamps are in seconds, as the column     *)
(* stores them.                                                            *)
(***************************************************************************)
FILE_RETENTION_HOURS == 48

\* calculateDeletionTime(), called at time t
calculateDeletionTime(t) == t + FILE_RETENTION_HOURS * 60 * 60

\* deletedAt of a row that was never deleted
NoDate == 0

\* a selection that leaves out the rows due at this very second
ExpiredUploadsStrict(table, t) ==
    {u \in table : ~u.isDeleted /\ u.scheduledDeletionAt < t}

\* select().from(uploads).where(and(eq(isDeleted, false), lte(scheduledDeletionAt, now)))
ExpiredUploads(table, t) ==
    {u \in table : ~u.isDeleted /\ u.scheduledDeletionAt <= t}

\* .all(): the selected rows, in an order the query does not fix
AllRows(rows) ==
    {sq \in [1..Cardinality(rows) -> rows] : \A i, j \in DOMAIN sq : i # j => sq[i] # sq[j]}

\* an update that also moves the row's deletion time
MarkDeletedRescheduling(table, id, t) ==
    {IF u.id = id
     THEN [u EXCEPT !.isDeleted = TRUE, !.deletedAt = t, !.scheduledDeletionAt = t]
     ELSE u : u \in table}

\* update(uploads).set({isDeleted: true, deletedAt}).where(eq(uploads.id, id))
MarkDeleted(table, id, t) ==
    {IF u.id = id THEN [u EXCEPT !.isDeleted = TRUE, !.deletedAt = t] ELSE u : u \in table}

IdleSweep ==
    [pc |-> "idle", now |-> 0, expiredUploads |-> <<>>, upload |-> 0,
     deleted |-> 0, failed |-> 0, errors |-> <<>>, runs |-> 0, faults |-> 0]

\* cleanup runs begun so far
SweepRuns == sweep[1].runs + sweep[2].runs

\* lines 225-231: a cleanup run begins; const now = new Date()
SweepBegin(p) ==
    /\ sweep[p].pc \in {"idle", "done"}
    /\ SweepRuns < MaxSweeps
    /\ sweep' = [sweep EXCEPT ![p] =
                   [IdleSweep EXCEPT !.pc = "select", !.now = now, !.runs = sweep[p].runs + 1]]
    /\ UNCHANGED <<uploads, store>>

\* lines 236-257: the expired rows are selected; with none the run returns
SweepSelect(p) ==
    /\ sweep[p].pc = "select"
    /\ \E rows \in AllRows(ExpiredUploads(uploads, sweep[p].now)) :
         sweep' = [sweep EXCEPT ![p].expiredUploads = rows,
                                ![p].upload = 1,
                                ![p].pc = IF Len(rows) = 0 THEN "done" ELSE "delete"]
    /\ UNCHANGED <<uploads, store>>

\* the loop goes to the next row, or the run returns
NextRow(s) ==
    [s EXCEPT !.upload = @ + 1,
              !.pc = IF s.upload = Len(s.expiredUploads) THEN "done" ELSE "delete"]

\* a failure that ends the run
SweepFailedAborting(s, message) ==
    [s EXCEPT !.failed = @ + 1,
              !.errors = Append(@, <<s.expiredUploads[s.upload].filename, message>>),
              !.pc = "done"]

\* lines 271-275: the catch block of one row
SweepFailed(s, message) ==
    NextRow([s EXCEPT !.failed = @ + 1,
                         !.errors = Append(@, <<s.expiredUploads[s.upload].filename, message>>)])

\* a store whose delete throws on a key that is not there
SweepDeleteMissingKeyThrows(p) ==
    /\ sweep[p].pc = "delete"
    /\ LET s == sweep[p] IN
       \/ /\ s.expiredUploads[s.upload].filename \in store
          /\ store' = store \ {s.expiredUploads[s.upload].filename}
          /\ sweep' = [sweep EXCEPT ![p].pc = "mark"]
       \/ /\ s.expiredUploads[s.upload].filename \notin store
          /\ sweep' = [sweep EXCEPT ![p] = SweepFailed(s, "no such key")]
          /\ UNCHANGED store
       \/ /\ sweep' = [sweep EXCEPT ![p] = SweepFailed([s EXCEPT !.faults = @ + 1], "delete failed")]
          /\ UNCHANGED store
    /\ UNCHANGED uploads

\* lines 259-262: r2Bucket.delete(upload.filename) returns or throws
SweepDelete(p) ==
    /\ sweep[p].pc = "delete"
    /\ LET s == sweep[p] IN
       \/ /\ store' = store \ {s.expiredUploads[s.upload].filename}
          /\ sweep' = [sweep EXCEPT ![p].pc = "mark"]
       \/ /\ sweep' = [sweep EXCEPT ![p] = SweepFailed([s EXCEPT !.faults = @ + 1], "delete failed")]
          /\ UNCHANGED store
    /\ UNCHANGED uploads

\* a run that removes the row instead of marking it
SweepMarkPurging(p) ==
    /\ sweep[p].pc = "mark"
    /\ LET s == sweep[p] IN
       \/ /\ uploads' = {u \in uploads : u.id # s.expiredUploads[s.upload].id}
          /\ sweep' = [sweep EXCEPT ![p] = NextRow([s EXCEPT !.deleted = @ + 1])]
       \/ /\ sweep' = [sweep EXCEPT ![p] = SweepFailed([s EXCEPT !.faults = @ + 1], "update failed")]
          /\ UNCHANGED uploads
    /\ UNCHANGED store

\* an update that throws after it has written the row
SweepMarkThrowingLate(p) ==
    /\ sweep[p].pc = "mark"
    /\ LET s == sweep[p] IN
       \/ /\ uploads' = MarkDeleted(uploads, s.expiredUploads[s.upload].id, s.now)
          /\ sweep' = [sweep EXCEPT ![p] = NextRow([s EXCEPT !.deleted = @ + 1])]
       \/ /\ uploads' = MarkDeleted(uploads, s.expiredUploads[s.upload].id, s.now)
          /\ sweep' = [sweep EXCEPT ![p] = SweepFailed([s EXCEPT !.faults = @ + 1], "update failed")]
    /\ UNCHANGED store

\* lines 264-270: the row is marked as deleted, or the update throws
SweepMark(p) ==
    /\ sweep[p].pc = "mark"
    /\ LET s == sweep[p] IN
       \/ /\ uploads' = MarkDeleted(uploads, s.expiredUploads[s.upload].id, s.now)
          /\ sweep' = [sweep EXCEPT ![p] = NextRow([s EXCEPT !.deleted = @ + 1])]
       \/ /\ sweep' = [sweep EXCEPT ![p] = SweepFailed([s EXCEPT !.faults = @ + 1], "update failed")]
          /\ UNCHANGED uploads
    /\ UNCHANGED store

\* deleteUpload(db, r2Bucket, filename), lines 301-336
IdleDelete ==
    [pc |-> "idle", filename |-> NoFile, upload |-> {}, threw |-> FALSE,
     fault |-> "none", runs |-> 0,
     pre |-> [store |-> {}, uploads |-> {}, userQuotas |-> {}, now |-> 0],
     last |-> [filename |-> NoFile, threw |-> FALSE, fault |-> "none"]]

\* deleteUpload calls begun so far
DeleteRuns == del[1].runs + del[2].runs

\* lines 301-308: the call begins
DeleteBegin(p, filename) ==
    /\ del[p].pc \in {"idle", "done"}
    /\ DeleteRuns < MaxDeletes
    /\ del' = [del EXCEPT ![p] =
                 [IdleDelete EXCEPT
                    !.pc = "object", !.filename = filename, !.runs = del[p].runs + 1,
                    !.pre = [store |-> store, uploads |-> uploads,
                             userQuotas |-> userQuotas, now |-> now],
                    !.last = [filename |-> del[p].filename, threw |-> del[p].threw,
                              fault |-> del[p].fault]]]
    /\ UNCHANGED <<uploads, store>>

\* a store failure that is swallowed
DeleteObjectSwallowing(p) ==
    /\ del[p].pc = "object"
    /\ \/ /\ store' = store \ {del[p].filename}
          /\ del' = [del EXCEPT ![p].pc = "select"]
       \/ /\ del' = [del EXCEPT ![p].pc = "select", ![p].fault = "delete"]
          /\ UNCHANGED store
    /\ UNCHANGED uploads

\* lines 309-311 and 332-335: r2Bucket.delete(filename) returns, or throws
\* and the error is logged and thrown again
DeleteObject(p) ==
    /\ del[p].pc = "object"
    /\ \/ /\ store' = store \ {del[p].filename}
          /\ del' = [del EXCEPT ![p].pc = "select"]
       \/ /\ del' = [del EXCEPT ![p].pc = "done", ![p].threw = TRUE, ![p].fault = "delete"]
          /\ UNCHANGED store
    /\ UNCHANGED uploads

\* select().from(uploads).where(eq(uploads.filename, filename)).get()
SelectUpload(table, filename) == {u \in table : u.filename = filename}

\* a lookup that finds no row
DeleteSelectNothing(p) ==
    /\ del[p].pc = "select"
    /\ del' = [del EXCEPT ![p].pc = "done"]
    /\ UNCHANGED <<uploads, store>>

\* lines 313-319: the row of the file is selected
DeleteSelect(p) ==
    /\ del[p].pc = "select"
    /\ LET upload == SelectUpload(uploads, del[p].filename) IN
       del' = [del EXCEPT ![p].upload = upload,
                          ![p].pc = IF upload = {} THEN "done" ELSE "mark"]
    /\ UNCHANGED <<uploads, store>>

\* lines 321-329 and 332-335: if (upload) the row is marked as deleted at
\* new Date(), or the update throws and the error is thrown again
DeleteMark(p) ==
    /\ del[p].pc = "mark"
    /\ \/ /\ uploads' = MarkDeleted(uploads, (CHOOSE u \in del[p].upload : TRUE).id, now)
          /\ del' = [del EXCEPT ![p].pc = "done"]
       \/ /\ del' = [del EXCEPT ![p].pc = "done", ![p].threw = TRUE, ![p].fault = "update"]
          /\ UNCHANGED uploads
    /\ UNCHANGED store

(***************************************************************************)
(* The rate limiter, src/middleware/rate-limit.ts.  The count of a key is  *)
(* kept in Workers KV as a decimal string that expires config.window       *)
(* seconds after it was last written.  A call is a sequence of steps, one  *)
(* for each await.                                                         *)
(***************************************************************************)
\* lib/constants.ts: the limits of POST /api/register and POST /api/upload
RATE_LIMITS ==
    [REGISTER |-> [requests |-> 3, window |-> 3600],
     UPLOAD |-> [requests |-> 20, window |-> 3600]]

\* registerRateLimit = rateLimit(RATE_LIMITS.REGISTER, 'register') and
\* uploadRateLimit = userRateLimit(RATE_LIMITS.UPLOAD, 'upload')
Limiters ==
    {[config |-> RATE_LIMITS.REGISTER, keyPrefix |-> "register", byUser |-> FALSE],
     [config |-> RATE_LIMITS.UPLOAD, keyPrefix |-> "upload", byUser |-> TRUE]}

\* c.get('user') of a request: none, or the signed-in user
NoUser == "none"
ClientIP == "203.0.113.7"

\* the KV key: `ratelimit:${keyPrefix}:${ip}`, or for a limiter by user and
\* a signed-in user `ratelimit:${keyPrefix}:user:${user.id}`
kvKey(limiter, user) ==
    IF limiter.byUser /\ user # NoUser
    THEN <<"ratelimit", limiter.keyPrefix, "user", user>>
    ELSE <<"ratelimit", limiter.keyPrefix, ClientIP>>

Keys == {kvKey(l, u) : l \in Limiters, u \in {NoUser, "u1"}}

\* the config of the limiter that writes a key
ConfigOf(key) == (CHOOSE l \in Limiters : l.keyPrefix = key[2]).config

Digits == <<"0", "1", "2", "3", "4", "5", "6", "7", "8", "9">>

\* newCount.toString()
RECURSIVE toString(_)
toString(n) ==
    IF n < 10 THEN <<Digits[n + 1]>> ELSE toString(n \div 10) \o <<Digits[(n % 10) + 1]>>

\* parseInt(stored, 10) of a string of decimal digits
RECURSIVE parseInt(_)
parseInt(stored) ==
    IF Len(stored) = 0 THEN 0
    ELSE parseInt(SubSeq(stored, 1, Len(stored) - 1)) * 10
            + (CHOOSE d \in 0..9 : Digits[d + 1] = stored[Len(stored)])

\* a key that holds nothing: get() returns null
NoEntry == [value |-> <<>>, expiresAt |-> 0]

\* RATE_LIMIT_KV.get(key): null once the entry has expired
KvGet(key) == IF kv[key] # NoEntry /\ now < kv[key].expiresAt THEN kv[key].value ELSE <<>>

IdleLimiter ==
    [pc |-> "idle", key |-> <<>>, config |-> [requests |-> 0, window |-> 0], current |-> 0,
     statusCode |-> 0, nextRuns |-> 0, failedOpen |-> FALSE, runs |-> 0]

\* requests that have reached the limiter so far
LimiterRuns == rl[1].runs + rl[2].runs

\* lines 37-40 and 84-93: a request reaches the middleware
LimiterBegin(p, limiter, user) ==
    /\ rl[p].pc \in {"idle", "done"}
    /\ LimiterRuns < MaxLimiterRequests
    /\ rl' = [rl EXCEPT ![p] =
                [IdleLimiter EXCEPT
                   !.pc = "get", !.key = kvKey(limiter, user), !.config = limiter.config,
                   !.runs = rl[p].runs + 1]]
    /\ UNCHANGED <<kv, admitted>>

\* lines 44-57: the count is read and compared with the limit; a count at
\* the limit is answered with 429; a get that throws lands in the catch
LimiterGet(p) ==
    /\ rl[p].pc = "get"
    /\ \/ LET stored == KvGet(rl[p].key)
              current == IF stored # <<>> THEN parseInt(stored) ELSE 0 IN
          rl' = [rl EXCEPT ![p].current = current,
                           ![p].pc = IF current >= rl[p].config.requests THEN "done" ELSE "put",
                           ![p].statusCode =
                               IF current >= rl[p].config.requests THEN 429 ELSE 0]
       \/ rl' = [rl EXCEPT ![p].pc = "catch"]
    /\ UNCHANGED <<kv, admitted>>

\* lines 60-65: current + 1 is written with a new expiry and the request
\* is on its way to the next handler, or the put throws
LimiterPut(p) ==
    /\ rl[p].pc = "put"
    /\ \/ /\ kv' = [kv EXCEPT ![rl[p].key] =
                       [value |-> toString(rl[p].current + 1),
                        expiresAt |-> now + rl[p].config.window]]
          /\ rl' = [rl EXCEPT ![p].pc = "next"]
          /\ admitted' = [admitted EXCEPT ![rl[p].key] = Append(@, now)]
       \/ /\ rl' = [rl EXCEPT ![p].pc = "catch"]
          /\ UNCHANGED <<kv, admitted>>

\* lines 68-72: the headers are set and the next handler runs
LimiterNext(p) ==
    /\ rl[p].pc = "next"
    /\ rl' = [rl EXCEPT ![p].pc = "done", ![p].nextRuns = @ + 1, ![p].statusCode = 200]
    /\ UNCHANGED <<kv, admitted>>

\* lines 73-77: a KV error is logged and the next handler runs all the same
LimiterCatch(p) ==
    /\ rl[p].pc = "catch"
    /\ rl' = [rl EXCEPT ![p].pc = "done", ![p].nextRuns = @ + 1, ![p].statusCode = 200,
                        ![p].failedOpen = TRUE]
    /\ UNCHANGED <<kv, admitted>>

\* no request has reached the limiter
NoLimiter ==
    /\ kv = [k \in Keys |-> NoEntry]
    /\ rl = [p \in Procs |-> IdleLimiter]
    /\ admitted = [k \in Keys |-> <<>>]

(***************************************************************************)
(* Initial ledgers.  Every row below is one the three functions produce    *)
(* from an empty table (counts and byte totals grow by incrementQuota, and *)
(* the two windows are reset independently):                               *)
(*   - a fresh row;                                                        *)
(*   - both counts one short of their limits, both windows just opened;    *)
(*   - the same counts, the monthly window ending in one second;           *)
(*   - monthly bytes one daily allowance short of the monthly limit.       *)
(* The first user starts with no row or any of these, the second with no   *)
(* row: its first checkQuota creates a fresh one.                          *)
(***************************************************************************)
NearLimit(u) ==
    [NewQuota(u, StartTime) EXCEPT
        !.dailyUploads = MAX_DAILY_UPLOADS - 1,
        !.monthlyUploads = MAX_MONTHLY_UPLOADS - 1]

InitRows(u) ==
    {NewQuota(u, StartTime),
     NearLimit(u),
     [NearLimit(u) EXCEPT !.lastResetMonthly = StartTime - (monthInMs - 1)],
     [NewQuota(u, StartTime) EXCEPT
        !.monthlyBytesUsed = MAX_MONTHLY_BYTES - MAX_DAILY_BYTES]}

InitTables == {{}} \cup {{q} : q \in InitRows("u1")}

\* no upload request has been made
NoUploads ==
    /\ store = {}
    /\ req = IdleReq
    /\ nextId = 0
    /\ requests = 0
    /\ okUploads = [u \in Users |-> 0]
    /\ uploads = {}
    /\ sweep = [p \in Procs |-> IdleSweep]
    /\ del = [p \in Procs |-> IdleDelete]
    /\ NoLimiter

Init ==
    /\ now = StartTime
    /\ userQuotas \in InitTables
    /\ call = [p \in Procs |-> IdleCall]
    /\ calls = 0
    /\ ticks = 0
    /\ NoUploads

(***************************************************************************)
(* Sequential use of the ledger: process 1 makes one call after the other, *)
(* and the clock stands still during a call.                               *)
(***************************************************************************)
SeqCheckQuota ==
    /\ \E u \in Users, b \in ByteArgs : Quiet /\ Begin(1, "check", u, b, MaxCalls)
    /\ UNCHANGED <<uploadVars, lifecycleVars, limiterVars>>
SeqIncrementQuota ==
    /\ \E u \in Users, b \in ByteArgs : Quiet /\ Begin(1, "increment", u, b, MaxCalls)
    /\ UNCHANGED <<uploadVars, lifecycleVars, limiterVars>>
SeqDecrementQuota ==
    /\ \E u \in Users, b \in ByteArgs : Quiet /\ Begin(1, "decrement", u, b, MaxCalls)
    /\ UNCHANGED <<uploadVars, lifecycleVars, limiterVars>>
SeqTick ==
    /\ \E d \in TickSet : Quiet /\ Tick(d)
    /\ UNCHANGED <<uploadVars, lifecycleVars, limiterVars>>

Step ==
    /\ UNCHANGED <<uploadVars, lifecycleVars, limiterVars>>
    /\ \E p \in Procs :
        \/ CheckSelect(p)
        \/ CheckInsert(p)
        \/ CheckDaily(p)
        \/ CheckMonthly(p)
        \/ CheckReturn(p)
        \/ IncrementSelect(p)
        \/ IncrementUpdate(p)
        \/ DecrementSelect(p)
        \/ DecrementUpdate(p)

Next ==
    \/ SeqCheckQuota
    \/ SeqIncrementQuota
    \/ SeqDecrementQuota
    \/ SeqTick
    \/ Step

Spec == Init /\ [][Next]_vars

(***************************************************************************)
(* Concurrent use of the ledger: two requests call into it at any time and *)
(* interleave at every database statement.  The calls are short: the clock *)
(* is the same for all of them, the initial one or one a day later (when   *)
(* every daily window of the initial ledger is stale).                     *)
(***************************************************************************)
ConcCheckQuota ==
    /\ \E p \in Procs, u \in Users, b \in ByteArgs : Begin(p, "check", u, b, MaxConcCalls)
    /\ UNCHANGED <<uploadVars, lifecycleVars, limiterVars>>
ConcIncrementQuota ==
    /\ \E p \in Procs, u \in Users, b \in ByteArgs : Begin(p, "increment", u, b, MaxConcCalls)
    /\ UNCHANGED <<uploadVars, lifecycleVars, limiterVars>>
ConcDecrementQuota ==
    /\ \E p \in Procs, u \in Users, b \in ByteArgs : Begin(p, "decrement", u, b, MaxConcCalls)
    /\ UNCHANGED <<uploadVars, lifecycleVars, limiterVars>>

InitConc ==
    /\ now \in {StartTime, StartTime + dayInMs}
    /\ userQuotas \in InitTables
    /\ call = [p \in Procs |-> IdleCall]
    /\ calls = 0
    /\ ticks = 0
    /\ NoUploads

NextConc ==
    \/ ConcCheckQuota
    \/ ConcIncrementQuota
    \/ ConcDecrementQuota
    \/ Step

SpecConc == InitConc /\ [][NextConc]_vars

(***************************************************************************)
(* Upload requests, one after the other.  Nothing in the route reads or    *)
(* writes user_quotas, so the ledger starts, and stays, empty.  The first  *)
(* user has either uploaded nothing yet or already has one upload less     *)
(* than MAX_DAILY_UPLOADS answered with success in the current window,     *)
(* whose objects are in the bucket.                                        *)
(***************************************************************************)
InitUpload ==
    /\ now = StartTime
    /\ userQuotas = {}
    /\ call = [p \in Procs |-> IdleCall]
    /\ calls = 0
    /\ ticks = 0
    /\ req = IdleReq
    /\ requests = 0
    /\ \E n \in {0, MAX_DAILY_UPLOADS - 1} :
        /\ nextId = n
        /\ store = {<<i, ".mp4">> : i \in 1..n}
        /\ okUploads = [u \in Users |-> IF u = "u1" THEN n ELSE 0]
    /\ uploads = {}
    /\ sweep = [p \in Procs |-> IdleSweep]
    /\ del = [p \in Procs |-> IdleDelete]
    /\ NoLimiter

UploadRequest ==
    /\ \E u \in Users, form \in Forms, env \in Environments : UploadBegin(u, form, env)
    /\ UNCHANGED <<ledgerVars, lifecycleVars, limiterVars>>

UploadStep ==
    /\ UNCHANGED <<ledgerVars, lifecycleVars, limiterVars>>
    /\ \/ UploadValidate
       \/ UploadPut
       \/ UploadGetAccounts
       \/ UploadCleanUp
       \/ UploadSchedule
       \/ UploadRespond
       \/ UploadCatch

NextUpload ==
    \/ UploadRequest
    \/ UploadStep

SpecUpload == InitUpload /\ [][NextUpload]_vars

(***************************************************************************)
(* Uploads, the passing of time and cleanup runs.  GET /api/cleanup        *)
(* (src/routes/cleanup.ts) runs cleanupExpiredFiles whenever it is called, *)
(* also while an upload request is being handled.  The uploads table       *)
(* starts empty, and stays so: the route inserts no row.                   *)
(***************************************************************************)
\* clock advances that take the clock to 47h and to 49h after the start
RetentionTicks == {47 * 60 * 60, 2 * 60 * 60}

InitReap ==
    /\ now = StartTime
    /\ userQuotas = {}
    /\ call = [p \in Procs |-> IdleCall]
    /\ calls = 0
    /\ ticks = 0
    /\ NoUploads

ReapUpload ==
    /\ UploadBegin("u1", ValidForm, "ok")
    /\ UNCHANGED <<ledgerVars, lifecycleVars, limiterVars>>

SweepStep ==
    /\ UNCHANGED <<ledgerVars, req, nextId, requests, okUploads, del, limiterVars>>
    /\ \/ SweepBegin(1)
       \/ SweepSelect(1)
       \/ SweepDelete(1)
       \/ SweepMark(1)

ReapTick ==
    /\ \E d \in RetentionTicks : Tick(d)
    /\ UNCHANGED <<uploadVars, lifecycleVars, limiterVars>>

NextReap ==
    \/ ReapUpload
    \/ UploadStep
    \/ SweepStep
    \/ ReapTick

SpecReap == InitReap /\ [][NextReap]_vars

(***************************************************************************)
(* deleteUpload calls made one after the other, with time passing between  *)
(* them.  The uploads table holds rows as the schema describes them: a     *)
(* row uploaded just now, one whose deletion time is now, one whose        *)
(* deletion time has passed, and one already marked as deleted.  The       *)
(* bucket holds an object for every row that is not marked as deleted,     *)
(* and one under a key that has no row, as the upload route leaves them.   *)
(***************************************************************************)
UploadRow(id, uploadedAt) ==
    [id |-> id, userId |-> "u1", filename |-> <<id, ".mp4">>, fileSizeBytes |-> 1024,
     uploadedAt |-> uploadedAt, scheduledDeletionAt |-> calculateDeletionTime(uploadedAt),
     isDeleted |-> FALSE, deletedAt |-> NoDate]

Hour == 60 * 60
FreshRow == UploadRow(101, StartTime)
DueRow == UploadRow(102, StartTime - 48 * Hour)
OverdueRow == UploadRow(103, StartTime - 49 * Hour)
DeletedRow ==
    [UploadRow(104, StartTime - 96 * Hour) EXCEPT
        !.isDeleted = TRUE, !.deletedAt = StartTime - 48 * Hour]
OrphanKey == <<100, ".mp4">>

InitUploadTables ==
    {{}, {FreshRow}, {DeletedRow}, {FreshRow, DueRow}, {FreshRow, DueRow, OverdueRow},
     {DueRow, DeletedRow}}

\* the objects of the rows that are not marked as deleted
LiveObjects(table) == {u.filename : u \in {v \in table : ~v.isDeleted}}

\* filenames deleteUpload is called with
DeleteArgs == {FreshRow.filename, DueRow.filename, DeletedRow.filename, OrphanKey}

InitLifecycle ==
    /\ now = StartTime
    /\ userQuotas = {NearLimit("u1")}
    /\ call = [p \in Procs |-> IdleCall]
    /\ calls = 0
    /\ ticks = 0
    /\ req = IdleReq
    /\ nextId = 0
    /\ requests = 0
    /\ okUploads = [u \in Users |-> 0]
    /\ uploads \in InitUploadTables
    /\ store = LiveObjects(uploads) \cup {OrphanKey}
    /\ sweep = [p \in Procs |-> IdleSweep]
    /\ del = [p \in Procs |-> IdleDelete]
    /\ NoLimiter

SeqDeleteUpload ==
    /\ \E filename \in DeleteArgs : DeleteBegin(1, filename)
    /\ UNCHANGED <<ledgerVars, req, nextId, requests, okUploads, sweep, limiterVars>>

DeleteStep ==
    /\ UNCHANGED <<ledgerVars, req, nextId, requests, okUploads, sweep, limiterVars>>
    /\ \E p \in Procs :
        \/ DeleteObject(p)
        \/ DeleteSelect(p)
        \/ DeleteMark(p)

DeleteTick ==
    /\ del[1].pc \in {"idle", "done"}
    /\ \E d \in RetentionTicks : Tick(d)
    /\ UNCHANGED <<uploadVars, lifecycleVars, limiterVars>>

NextDelete ==
    \/ SeqDeleteUpload
    \/ DeleteStep
    \/ DeleteTick

SpecDelete == InitLifecycle /\ [][NextDelete]_vars

(***************************************************************************)
(* Cleanup runs one after the other over such a table, with time passing.  *)
(***************************************************************************)
NextSweep ==
    \/ SweepStep
    \/ ReapTick

SpecSweep == InitLifecycle /\ [][NextSweep]_vars

(***************************************************************************)
(* Cleanup runs and deleteUpload calls of two workers at once: every await *)
(* of either function is a point where the other worker may run.           *)
(***************************************************************************)
ConcSweepStep ==
    /\ UNCHANGED <<ledgerVars, req, nextId, requests, okUploads, del, limiterVars>>
    /\ \E p \in Procs :
        \/ SweepBegin(p)
        \/ SweepSelect(p)
        \/ SweepDelete(p)
        \/ SweepMark(p)

\* one row that is due and one that is not
InitOverlap ==
    /\ InitLifecycle
    /\ uploads = {FreshRow, DueRow}

ConcDeleteUpload ==
    /\ \E filename \in {FreshRow.filename, DueRow.filename} : DeleteBegin(2, filename)
    /\ UNCHANGED <<ledgerVars, req, nextId, requests, okUploads, sweep, limiterVars>>

NextOverlap ==
    \/ ConcSweepStep
    \/ ConcDeleteUpload
    \/ DeleteStep

SpecOverlap == InitOverlap /\ [][NextOverlap]_vars

(***************************************************************************)
(* An upload request, cleanup runs and deleteUpload calls interleaved,     *)
(* with time passing.                                                      *)
(***************************************************************************)
\* uploads, cleanup runs and deleteUpload calls begun so far
LifecycleOps == requests + SweepRuns + DeleteRuns

LifecycleUpload ==
    /\ LifecycleOps < MaxLifecycleOps
    /\ ReapUpload

LifecycleSweep ==
    /\ LifecycleOps < MaxLifecycleOps
    /\ SweepBegin(1)
    /\ UNCHANGED <<ledgerVars, req, nextId, requests, okUploads, del, limiterVars>>

LifecycleSweepStep ==
    /\ UNCHANGED <<ledgerVars, req, nextId, requests, okUploads, del, limiterVars>>
    /\ \/ SweepSelect(1)
       \/ SweepDelete(1)
       \/ SweepMark(1)

LifecycleDeleteUpload ==
    /\ LifecycleOps < MaxLifecycleOps
    /\ ConcDeleteUpload

NextLifecycle ==
    \/ LifecycleUpload
    \/ UploadStep
    \/ LifecycleSweep
    \/ LifecycleSweepStep
    \/ LifecycleDeleteUpload
    \/ DeleteStep

SpecLifecycle == InitOverlap /\ [][NextLifecycle]_vars

(***************************************************************************)
(* Requests of one client to POST /api/register and POST /api/upload,      *)
(* handled by two workers at once, with time passing.  The keys start      *)
(* empty, or one short of their limits, as config.requests - 1 requests at *)
(* StartTime leave them.                                                   *)
(***************************************************************************)
\* the count config.requests - 1 requests made at time t leave under a key
OneShort(key, t) ==
    [value |-> toString(ConfigOf(key).requests - 1), expiresAt |-> t + ConfigOf(key).window]

InitLimiter ==
    /\ now = StartTime
    /\ userQuotas = {}
    /\ call = [p \in Procs |-> IdleCall]
    /\ calls = 0
    /\ ticks = 0
    /\ store = {}
    /\ req = IdleReq
    /\ nextId = 0
    /\ requests = 0
    /\ okUploads = [u \in Users |-> 0]
    /\ uploads = {}
    /\ sweep = [p \in Procs |-> IdleSweep]
    /\ del = [p \in Procs |-> IdleDelete]
    /\ rl = [p \in Procs |-> IdleLimiter]
    /\ \E short \in {{}, Keys} :
         /\ kv = [k \in Keys |-> IF k \in short THEN OneShort(k, StartTime) ELSE NoEntry]
         /\ admitted = [k \in Keys |->
                          IF k \in short
                          THEN [i \in 1..(ConfigOf(k).requests - 1) |-> StartTime]
                          ELSE <<>>]

LimiterRequest ==
    /\ \E p \in Procs, limiter \in Limiters, user \in {NoUser, "u1"} :
         LimiterBegin(p, limiter, user)
    /\ UNCHANGED <<ledgerVars, uploadVars, lifecycleVars>>

LimiterStep ==
    /\ UNCHANGED <<ledgerVars, uploadVars, lifecycleVars>>
    /\ \E p \in Procs :
        \/ LimiterGet(p)
        \/ LimiterPut(p)
        \/ LimiterNext(p)
        \/ LimiterCatch(p)

\* a second passes, or a whole window
LimiterTick ==
    /\ \E d \in {1, RATE_LIMITS.REGISTER.window} : Tick(d)
    /\ UNCHANGED <<uploadVars, lifecycleVars, limiterVars>>

NextLimiter ==
    \/ LimiterRequest
    \/ LimiterStep
    \/ LimiterTick

SpecLimiter == InitLimiter /\ [][NextLimiter]_vars

(***************************************************************************)
(* Concurrent uploads of one user that use the ledger as it is meant to be *)
(* used: each calls checkQuota and, only if that allowed the upload,       *)
(* incrementQuota with the same size, within one window.                   *)
(***************************************************************************)
GatedCheckQuota ==
    /\ \E p \in Procs, b \in ByteArgs : Begin(p, "check", "u1", b, MaxGatedCalls)
    /\ UNCHANGED <<uploadVars, lifecycleVars, limiterVars>>

\* the checkQuota call of process p has returned allowed: true
Allowed(p) ==
    /\ call[p].op = "check"
    /\ call[p].pc = "done"
    /\ ~call[p].threw
    /\ call[p].result.allowed

GatedIncrementQuota ==
    /\ \E p \in Procs :
         /\ Allowed(p)
         /\ Begin(p, "increment", call[p].userId, call[p].fileSizeBytes, MaxGatedCalls)
    /\ UNCHANGED <<uploadVars, lifecycleVars, limiterVars>>

GatedStep ==
    /\ UNCHANGED <<uploadVars, lifecycleVars, limiterVars>>
    /\ \E p \in Procs :
        \/ CheckSelect(p)
        \/ CheckInsert(p)
        \/ CheckDaily(p)
        \/ CheckMonthly(p)
        \/ CheckReturn(p)
        \/ IncrementSelect(p)
        \/ IncrementUpdate(p)

InitGated ==
    /\ now = StartTime
    /\ userQuotas \in InitTables
    /\ call = [p \in Procs |-> IdleCall]
    /\ calls = 0
    /\ ticks = 0
    /\ NoUploads

NextGated ==
    \/ GatedCheckQuota
    \/ GatedIncrementQuota
    \/ GatedStep

SpecGated == InitGated /\ [][NextGated]_vars

(***************************************************************************)
(* Properties of the quota ledger.                                         *)
(*                                                                         *)
(* In Spec the calls are made one after the other by process 1, so when a  *)
(* call is done, call[1].pre is the table before the call and userQuotas   *)
(* the table after it.                                                     *)
(***************************************************************************)
Done(op) == call[1].op = op /\ call[1].pc = "done"
PreRows == SelectQuota(call[1].pre, call[1].userId)
PostRows == SelectQuota(userQuotas, call[1].userId)
OthersUnchanged ==
    {q \in userQuotas : q.userId # call[1].userId} =
    {q \in call[1].pre : q.userId # call[1].userId}
Minus(x, d) == IF x >= d THEN x - d ELSE 0

\* C1: in every reachable state the four counters of every stored quota row
\* are >= 0, whatever checkQuota, incrementQuota and decrementQuota calls
\* were made.
C1_CountersNeverNegative ==
    \A q \in userQuotas :
        /\ q.dailyUploads >= 0
        /\ q.monthlyUploads >= 0
        /\ q.dailyBytesUsed >= 0
        /\ q.monthlyBytesUsed >= 0

\* a decrement of more bytes than were used, and of an upload that was
\* never counted, has been applied
C1_Witness ==
    /\ Done("decrement")
    /\ PreRows # {}
    /\ Row(PreRows).dailyUploads = 0
    /\ Row(PreRows).dailyBytesUsed < call[1].fileSizeBytes
    /\ Row(PostRows).dailyUploads = 0
    /\ Row(PostRows).dailyBytesUsed = 0

\* C2: when two increment/decrement calls for the same user overlap (both
\* began on the same table) and both have finished, every counter is its
\* initial value plus the sum of both deltas.
Delta(p) ==
    IF call[p].op = "increment"
    THEN [n |-> 1, bytes |-> call[p].fileSizeBytes]
    ELSE [n |-> -1, bytes |-> 0 - call[p].fileSizeBytes]

Taken(p) ==
    IF call[p].op = "decrement"
    THEN [n |-> 1, bytes |-> call[p].fileSizeBytes]
    ELSE [n |-> 0, bytes |-> 0]

C2_NoLostUpdate ==
    (/\ call[1].pc = "done" /\ call[2].pc = "done"
     /\ call[1].op \in {"increment", "decrement"}
     /\ call[2].op \in {"increment", "decrement"}
     /\ call[1].userId = call[2].userId
     /\ call[1].pre = call[2].pre
     /\ SelectQuota(call[1].pre, call[1].userId) # {}
     /\ LET q0 == Row(SelectQuota(call[1].pre, call[1].userId)) IN
            \* what the decrements take is there, so that no clamp is involved
            /\ q0.dailyUploads >= Taken(1).n + Taken(2).n
            /\ q0.monthlyUploads >= Taken(1).n + Taken(2).n
            /\ q0.dailyBytesUsed >= Taken(1).bytes + Taken(2).bytes
            /\ q0.monthlyBytesUsed >= Taken(1).bytes + Taken(2).bytes)
    => LET q0 == Row(SelectQuota(call[1].pre, call[1].userId))
           q == Row(SelectQuota(userQuotas, call[1].userId)) IN
        /\ q.dailyUploads = q0.dailyUploads + Delta(1).n + Delta(2).n
        /\ q.monthlyUploads = q0.monthlyUploads + Delta(1).n + Delta(2).n
        /\ q.dailyBytesUsed = q0.dailyBytesUsed + Delta(1).bytes + Delta(2).bytes
        /\ q.monthlyBytesUsed = q0.monthlyBytesUsed + Delta(1).bytes + Delta(2).bytes

\* C3: a finished checkQuota denies with the first failing check in the
\* order daily count, monthly count, daily bytes, monthly bytes (counts
\* with >=, bytes with >), and allows exactly when none of the four fails.
\* The checks are read off the stored row, which the call has reset where
\* a window was stale.
C3_OrderedChecks ==
    (Done("check") /\ ~call[1].threw) =>
        LET q == Row(PostRows)
            b == call[1].fileSizeBytes
            r == call[1].result
            c1 == q.dailyUploads >= MAX_DAILY_UPLOADS
            c2 == q.monthlyUploads >= MAX_MONTHLY_UPLOADS
            c3 == q.dailyBytesUsed + b > MAX_DAILY_BYTES
            c4 == q.monthlyBytesUsed + b > MAX_MONTHLY_BYTES
        IN  /\ r.allowed <=> ~(c1 \/ c2 \/ c3 \/ c4)
            /\ c1 => r.reason = "daily_uploads"
            /\ (~c1 /\ c2) => r.reason = "monthly_uploads"
            /\ (~c1 /\ ~c2 /\ c3) => r.reason = "daily_bytes"
            /\ (~c1 /\ ~c2 /\ ~c3 /\ c4) => r.reason = "monthly_bytes"
            /\ r.allowed => r.reason = "none"
            /\ r.current = Current(q)

\* both count limits are reached and the denial names the daily one
C3_Witness ==
    /\ Done("check") /\ ~call[1].threw
    /\ Row(PostRows).dailyUploads >= MAX_DAILY_UPLOADS
    /\ Row(PostRows).monthlyUploads >= MAX_MONTHLY_UPLOADS
    /\ ~call[1].result.allowed
    /\ call[1].result.reason = "daily_uploads"

\* C4: a checkQuota that finds only the daily window stale zeroes the daily
\* counters and leaves monthlyUploads, monthlyBytesUsed and lastResetMonthly
\* as they were; one that finds only the monthly window stale leaves
\* dailyUploads, dailyBytesUsed and lastResetDaily as they were.
C4_IndependentResets ==
    (Done("check") /\ PreRows # {}) =>
        LET q0 == Row(PreRows)
            q == Row(PostRows)
            t == call[1].now
            dailyDue == t - q0.lastResetDaily >= dayInMs
            monthlyDue == t - q0.lastResetMonthly >= monthInMs
        IN  /\ (dailyDue /\ ~monthlyDue) =>
                /\ q.dailyUploads = 0 /\ q.dailyBytesUsed = 0
                /\ q.monthlyUploads = q0.monthlyUploads
                /\ q.monthlyBytesUsed = q0.monthlyBytesUsed
                /\ q.lastResetMonthly = q0.lastResetMonthly
            /\ (monthlyDue /\ ~dailyDue) =>
                /\ q.monthlyUploads = 0 /\ q.monthlyBytesUsed = 0
                /\ q.dailyUploads = q0.dailyUploads
                /\ q.dailyBytesUsed = q0.dailyBytesUsed
                /\ q.lastResetDaily = q0.lastResetDaily

\* only the daily window was stale, and the monthly counters that survived
\* are not zero
C4_Witness ==
    /\ Done("check") /\ PreRows # {}
    /\ call[1].now - Row(PreRows).lastResetDaily >= dayInMs
    /\ call[1].now - Row(PreRows).lastResetMonthly < monthInMs
    /\ Row(PreRows).dailyUploads > 0
    /\ Row(PostRows).dailyUploads = 0
    /\ Row(PostRows).monthlyUploads > 0
    /\ Row(PostRows).monthlyBytesUsed > 0

\* C5: checkQuota resets the daily window exactly when now - lastResetDaily
\* >= 24h and the monthly window exactly when now - lastResetMonthly >= 30d,
\* setting the lastReset field to now; the reset precedes the limit checks:
\* a user at the daily upload limit is still denied for that limit by a
\* check made before the 24h are over, and is not denied for it (and is
\* allowed when no other limit is reached) by a check made after.
C5_ResetAtThreshold ==
    (Done("check") /\ PreRows # {}) =>
        LET q0 == Row(PreRows)
            q == Row(PostRows)
            t == call[1].now
            r == call[1].result
            dailyDue == t - q0.lastResetDaily >= dayInMs
            monthlyDue == t - q0.lastResetMonthly >= monthInMs
        IN  /\ dailyDue =>
                q.lastResetDaily = t /\ q.dailyUploads = 0 /\ q.dailyBytesUsed = 0
            /\ ~dailyDue =>
                /\ q.lastResetDaily = q0.lastResetDaily
                /\ q.dailyUploads = q0.dailyUploads
                /\ q.dailyBytesUsed = q0.dailyBytesUsed
            /\ monthlyDue =>
                q.lastResetMonthly = t /\ q.monthlyUploads = 0 /\ q.monthlyBytesUsed = 0
            /\ ~monthlyDue =>
                /\ q.lastResetMonthly = q0.lastResetMonthly
                /\ q.monthlyUploads = q0.monthlyUploads
                /\ q.monthlyBytesUsed = q0.monthlyBytesUsed
            /\ (q0.dailyUploads >= MAX_DAILY_UPLOADS /\ ~dailyDue) =>
                ~r.allowed /\ r.reason = "daily_uploads"
            /\ (q0.dailyUploads >= MAX_DAILY_UPLOADS /\ dailyDue) =>
                /\ r.reason # "daily_uploads"
                /\ r.current.dailyUploads = 0
                /\ (/\ q.monthlyUploads < MAX_MONTHLY_UPLOADS
                    /\ call[1].fileSizeBytes <= MAX_DAILY_BYTES
                    /\ q.monthlyBytesUsed + call[1].fileSizeBytes <= MAX_MONTHLY_BYTES)
                   => r.allowed

\* a user at the daily upload limit is allowed by a check made exactly 24h
\* after lastResetDaily
C5_Witness ==
    /\ Done("check") /\ PreRows # {}
    /\ Row(PreRows).dailyUploads >= MAX_DAILY_UPLOADS
    /\ call[1].now - Row(PreRows).lastResetDaily = dayInMs
    /\ Row(PostRows).lastResetDaily = call[1].now
    /\ call[1].result.allowed

\* C6 as claimed: the stored ledger after a checkQuota call equals the
\* stored ledger before it.
C6_CheckQuotaPure ==
    Done("check") => userQuotas = call[1].pre

\* C6 as amended: checkQuota never charges the incoming upload.  It leaves
\* the rows of other users alone; it leaves the whole ledger unchanged when
\* the user's row exists and both of its windows are fresh, whether it
\* allows or denies; otherwise it writes only the lazily created zeroed row
\* or the reset of a stale window, so that no counter ever grows.
C6_CheckQuotaWritesOnlyLazyState ==
    Done("check") =>
        /\ ~call[1].threw
        /\ OthersUnchanged
        /\ PostRows # {}
        /\ PreRows = {} => PostRows = {NewQuota(call[1].userId, call[1].now)}
        /\ PreRows # {} =>
            LET q0 == Row(PreRows)
                q == Row(PostRows)
                t == call[1].now
            IN  /\ (t - q0.lastResetDaily < dayInMs /\ t - q0.lastResetMonthly < monthInMs)
                       => userQuotas = call[1].pre
                /\ q.dailyUploads \in {q0.dailyUploads, 0}
                /\ q.monthlyUploads \in {q0.monthlyUploads, 0}
                /\ q.dailyBytesUsed \in {q0.dailyBytesUsed, 0}
                /\ q.monthlyBytesUsed \in {q0.monthlyBytesUsed, 0}

\* a denied check on an existing row with fresh windows, next to the row of
\* another user, after which the ledger is what it was
C6_Witness ==
    /\ Done("check")
    /\ PreRows # {}
    /\ call[1].now - Row(PreRows).lastResetDaily < dayInMs
    /\ call[1].now - Row(PreRows).lastResetMonthly < monthInMs
    /\ ~call[1].result.allowed
    /\ \E q \in userQuotas : q.userId # call[1].userId
    /\ userQuotas = call[1].pre

\* C7: incrementQuota on an existing row adds exactly 1 to both counts and
\* exactly fileSizeBytes to both byte totals, whatever the limits and the
\* windows (which it leaves as they are); without a row it throws and the
\* ledger is unchanged.
C7_IncrementExact ==
    Done("increment") =>
        /\ OthersUnchanged
        /\ PreRows = {} => (call[1].threw /\ userQuotas = call[1].pre)
        /\ PreRows # {} =>
            LET q0 == Row(PreRows)
                q == Row(PostRows)
                b == call[1].fileSizeBytes
            IN  /\ ~call[1].threw
                /\ q.dailyUploads = q0.dailyUploads + 1
                /\ q.monthlyUploads = q0.monthlyUploads + 1
                /\ q.dailyBytesUsed = q0.dailyBytesUsed + b
                /\ q.monthlyBytesUsed = q0.monthlyBytesUsed + b
                /\ q.lastResetDaily = q0.lastResetDaily
                /\ q.lastResetMonthly = q0.lastResetMonthly

\* an increment beyond both count limits and beyond a stale daily window
C7_Witness ==
    /\ Done("increment") /\ PreRows # {}
    /\ Row(PreRows).dailyUploads >= MAX_DAILY_UPLOADS
    /\ Row(PreRows).monthlyUploads >= MAX_MONTHLY_UPLOADS
    /\ call[1].now - Row(PreRows).lastResetDaily >= dayInMs
    /\ Row(PostRows).dailyUploads = MAX_DAILY_UPLOADS + 1

\* C8: decrementQuota sets each counter to max(0, value - delta), delta 1
\* for the counts and fileSizeBytes for the byte totals; without a row it
\* returns normally and the ledger is unchanged.
C8_DecrementClamped ==
    Done("decrement") =>
        /\ ~call[1].threw
        /\ OthersUnchanged
        /\ PreRows = {} => userQuotas = call[1].pre
        /\ PreRows # {} =>
            LET q0 == Row(PreRows)
                q == Row(PostRows)
                b == call[1].fileSizeBytes
            IN  /\ q.dailyUploads = Minus(q0.dailyUploads, 1)
                /\ q.monthlyUploads = Minus(q0.monthlyUploads, 1)
                /\ q.dailyBytesUsed = Minus(q0.dailyBytesUsed, b)
                /\ q.monthlyBytesUsed = Minus(q0.monthlyBytesUsed, b)
                /\ q.lastResetDaily = q0.lastResetDaily
                /\ q.lastResetMonthly = q0.lastResetMonthly

\* a decrement for a user without a row returned and created none, and a
\* row of another user is there untouched
C8_Witness ==
    /\ Done("decrement")
    /\ PreRows = {}
    /\ ~call[1].threw
    /\ PostRows = {}
    /\ userQuotas # {}

(***************************************************************************)
(* Properties of the upload route.                                         *)
(***************************************************************************)
\* the quota record of a user, read as the route's rejection would report it
DailyUploadsOf(u) ==
    IF SelectQuota(userQuotas, u) = {} THEN 0
    ELSE Row(SelectQuota(userQuotas, u)).dailyUploads

\* the request has passed validation and is storing or has stored its object
PastQuotaCheck ==
    req.pc \in {"put", "accounts", "accounts_failed", "no_accounts", "schedule"}

\* C9: the upload request enforces the quota.  No user has more than
\* MAX_DAILY_UPLOADS uploads answered with success in one daily window;
\* once a user has that many, the user's dailyUploads is MAX_DAILY_UPLOADS,
\* and a further request of that user is rejected before anything is
\* written to the store, so it never gets to the step that stores the
\* object.
C9_QuotaEnforced ==
    \A u \in Users :
        okUploads[u] >= MAX_DAILY_UPLOADS =>
            /\ okUploads[u] = MAX_DAILY_UPLOADS
            /\ DailyUploadsOf(u) = MAX_DAILY_UPLOADS
            /\ req.userId = u => ~PastQuotaCheck

\* every occurrence of step b in the log comes after an occurrence of step a
Precedes(log, a, b) ==
    \A j \in 1..Len(log) : log[j] = b => \E i \in 1..(j - 1) : log[i] = a

\* C10: within one upload request the steps happen in the order validate,
\* quota check, store object, incrementQuota, recordUpload, resolve
\* targets, fan-out, and none is skipped: each step that is taken comes
\* after the step before it in that order.
C10_StepsInOrder ==
    /\ Precedes(req.log, "validate", "checkQuota")
    /\ Precedes(req.log, "checkQuota", "put")
    /\ Precedes(req.log, "put", "incrementQuota")
    /\ Precedes(req.log, "incrementQuota", "recordUpload")
    /\ Precedes(req.log, "recordUpload", "getAccounts")
    /\ Precedes(req.log, "getAccounts", "createSchedule")

\* the request's form fails validation, in the words of the claim
InvalidForm(f) ==
    \/ ~f.video \/ f.titleLen = 0 \/ f.descLen = 0
    \/ f.titleLen > 200 \/ f.descLen > 2000
    \/ f.type \notin ALLOWED_VIDEO_TYPES
    \/ f.size > MAX_FILE_SIZE

\* the request has changed neither the bucket nor a table since it began
NothingChanged ==
    /\ store = req.pre.store
    /\ userQuotas = req.pre.userQuotas
    /\ uploads = req.pre.uploads

\* the request was answered, and not with success
Rejected ==
    /\ req.pc = "done"
    /\ ~req.response.success
    /\ req.response.statusCode \in {400, 401, 500}

\* C11: an upload request that fails validation is rejected before any side
\* effect: at no point of the request is an object put in or deleted from
\* the store, a quota or lifecycle record changed, or an account-listing or
\* schedule call made, and the request ends rejected.
C11_InvalidRejectedFirst ==
    (req.pc # "idle" /\ InvalidForm(req.form)) =>
        /\ NothingChanged
        /\ \A i \in 1..Len(req.log) : req.log[i] = "validate"
        /\ req.scheduled = <<>>
        /\ req.pc \in {"validate", "catch", "done"}
        /\ req.pc = "done" => Rejected

C11_Witness ==
    /\ req.pc = "done"
    /\ req.form.size > MAX_FILE_SIZE
    /\ req.log = <<"validate">>
    /\ req.response.error = "file_too_large"
    /\ store # {}

\* the request's UPLOADS.put was called and threw
PutFailed ==
    /\ Len(req.log) >= 2
    /\ req.log[2] = "put"
    /\ req.putAt = 0

\* C12: if the object-store put of an upload request fails, the request is
\* rejected, the user's quota record is what it was before the request, no
\* lifecycle record is created, and no account-listing or schedule call is
\* made.
C12_PutFailureRejected ==
    PutFailed =>
        /\ userQuotas = req.pre.userQuotas
        /\ uploads = req.pre.uploads
        /\ req.scheduled = <<>>
        /\ \A i \in 1..Len(req.log) : req.log[i] \notin {"getAccounts", "createSchedule"}
        /\ req.pc \in {"catch", "done"}
        /\ req.pc = "done" => Rejected /\ req.response.statusCode = 500

C12_Witness ==
    /\ PutFailed
    /\ req.pc = "done"
    /\ req.response.error = "upload_failed"
    /\ req.log = <<"validate", "put", "delete">>

\* getAccounts threw or listed no account
ResolutionFailed ==
    /\ \E i \in 1..Len(req.log) : req.log[i] = "getAccounts"
    /\ req.accounts = <<>>

\* no lifecycle record says that the request's object is still to be deleted
NoLiveRecord ==
    \A u \in uploads : u.filename = req.filename => u.isDeleted

\* C13 as claimed: if target resolution fails or lists no account, the
\* request is rejected with full rollback: when the response is returned the
\* object is absent from the store, its lifecycle record is marked deleted
\* or absent, the user's quota record is what it was before the upload, and
\* no createSchedule call was made.
C13_FullRollback ==
    (ResolutionFailed /\ req.pc = "done") =>
        /\ Rejected
        /\ req.filename \notin store
        /\ NoLiveRecord
        /\ userQuotas = req.pre.userQuotas
        /\ req.scheduled = <<>>

\* C13, amended: if target resolution fails or lists no account, no
\* createSchedule call is made, the quota record and the uploads table stay
\* as they were, nothing but the request's own object is touched in the
\* store, and the request is rejected: with 400 after the object has been
\* deleted, or, when that delete throws, with 500 by the catch-all after a
\* second delete attempt, in which case the object may remain.
C13_RollbackUnlessDeleteThrows ==
    (ResolutionFailed /\ req.pc = "done") =>
        /\ Rejected
        /\ NoLiveRecord
        /\ userQuotas = req.pre.userQuotas
        /\ uploads = req.pre.uploads
        /\ req.scheduled = <<>>
        /\ store \ {req.filename} = req.pre.store
        /\ req.response.statusCode \in {400, 500}
        /\ req.response.statusCode = 400 =>
               /\ req.filename \notin store
               /\ req.log = <<"validate", "put", "getAccounts", "delete">>
        /\ req.response.statusCode = 500 =>
               req.log = <<"validate", "put", "getAccounts", "delete", "delete">>

C13_Witness ==
    /\ ResolutionFailed
    /\ req.pc = "done"
    /\ req.response.error = "no_connected_accounts"
    /\ req.putAt # 0
    /\ req.filename \notin store

\* the request was answered by the catch-all after a key had been produced
CaughtWithKey ==
    /\ req.pc = "done"
    /\ req.response.error = "upload_failed"
    /\ req.uploadedFilename # NoFile

\* C14: whenever a step of an upload request throws after an object key was
\* produced, the catch-all cleanup deletes the object from the store and
\* decrements the user's quota by the upload's size before the error
\* response is returned, and the response is the error response whatever
\* the cleanup does.
C14_CatchAllCleansUp ==
    CaughtWithKey =>
        /\ req.response.statusCode = 500
        /\ \E i \in 1..Len(req.log) : req.log[i] = "delete"
        /\ \E i \in 1..Len(req.log) : req.log[i] = "decrementQuota"

\* the request's object was written and the request has gone on to fan-out
StoredAndAccepted ==
    /\ req.putAt # 0
    /\ \/ req.pc = "schedule"
       \/ req.pc = "done" /\ req.log[Len(req.log)] # "delete"

\* C15: every object the upload request writes to the store gets a
\* lifecycle record with isDeleted = false and scheduledDeletionAt = upload
\* time + 48h, inserted only after the object was written: a record that is
\* not deleted never exists for a key whose object was never written.
C15_StoredObjectsRecorded ==
    /\ StoredAndAccepted =>
           \E u \in uploads :
               /\ u.filename = req.filename
               /\ ~u.isDeleted
               /\ u.scheduledDeletionAt = calculateDeletionTime(req.putAt)
    /\ \A u \in uploads :
           (u.filename = req.filename /\ ~u.isDeleted) => req.putAt # 0

\* a cleanup run that began at or after the deletion time of the request's
\* object has returned without reporting a failure
SweptAfterDeadline(p) ==
    /\ sweep[p].pc = "done"
    /\ sweep[p].failed = 0
    /\ sweep[p].now >= calculateDeletionTime(req.putAt)

\* C16: no storage object dangles.  An object written by an upload request
\* is absent from the store once the request has been answered and a
\* cleanup run begun at or after upload time + 48h has returned without a
\* failure: it was rolled back by its request or deleted by that run.
C16_NoDanglingObject ==
    \A p \in Procs :
        (req.pc = "done" /\ req.putAt # 0 /\ SweptAfterDeadline(p)) =>
            req.filename \notin store

\* the fan-out loop has made at least one createSchedule call
FanOutBegun == \E i \in 1..Len(req.log) : req.log[i] = "createSchedule"

\* the response was built after the fan-out loop
FanOutDone ==
    /\ req.pc = "done"
    /\ req.response.success \/ req.response.error = "failed_to_schedule"

\* the accounts the request is to be fanned out to
Targets == TargetAccounts(req.accounts, req.form.platforms)

\* C17: fan-out is isolated per target.  Whichever createSchedule calls
\* throw, the loop calls createSchedule once for each target account, in
\* order, neither retrying nor stopping after a failure, and returns one
\* result per account: status error with an error message for the accounts
\* whose call threw, status success for the others.
C17_FanOutIsolated ==
    /\ Len(req.scheduled) = Len(req.results)
    /\ Len(req.responses) = Len(req.results)
    /\ Len(req.results) <= Len(Targets)
    /\ \A i \in 1..Len(req.results) :
           /\ req.scheduled[i].accountId = Targets[i].id
           /\ req.results[i].accountId = Targets[i].id
           /\ req.results[i].accountName = Targets[i].name
           /\ req.results[i].accountType = Targets[i].type
           /\ req.responses[i] = 200 =>
                  /\ req.results[i].status = "success"
                  /\ "error" \notin DOMAIN req.results[i]
           /\ req.responses[i] # 200 =>
                  /\ req.results[i].status = "error"
                  /\ "error" \in DOMAIN req.results[i]
                  /\ req.results[i].error # ""
    /\ FanOutBegun => req.pc = "schedule" \/ FanOutDone
    /\ FanOutDone =>
           /\ Len(req.results) = Len(Targets)
           /\ req.response.results = req.results

C17_Witness ==
    /\ FanOutDone
    /\ Len(Targets) = 3
    /\ req.responses = <<200, 401, 200>>
    /\ req.results[2].status = "error"
    /\ req.results[3].status = "success"

\* the number of createSchedule calls of the request that returned
Delivered == Cardinality({i \in 1..Len(req.responses) : req.responses[i] = 200})

\* C18: the upload response reports overall success exactly when at least
\* one fan-out result has status success.  Then it is {success: true,
\* message, results} with every per-account result, the failed ones
\* included; when no result has status success it is an error response
\* with statusCode 500 that still carries all the results.
C18_SuccessIffOneDelivered ==
    /\ FanOutDone =>
           /\ req.response.success <=> Delivered >= 1
           /\ req.response.results = req.results
           /\ Len(req.response.results) = Len(Targets)
           /\ req.response.success =>
                  /\ req.response.statusCode = 200
                  /\ req.response.message =
                         <<"Successfully scheduled to", Delivered,
                           "out of", Len(Targets), "accounts">>
           /\ ~req.response.success =>
                  /\ req.response.statusCode = 500
                  /\ req.response.error = "failed_to_schedule"
    /\ req.response.success => FanOutDone

C18_Witness ==
    /\ FanOutDone
    /\ req.response.success
    /\ req.responses = <<200, 500>>
    /\ req.response.results[2].status = "error"

\* the fan-out ended without a single delivery and the request was answered
ZeroSuccess ==
    /\ req.pc = "done"
    /\ req.response.error = "failed_to_schedule"

\* C19: when fan-out finishes with zero successful targets the request is
\* rejected but nothing is rolled back: when the error response is returned
\* the stored object is still in the store, no delete was attempted, and
\* the user's quota record is unchanged.
C19_NoRollbackOnZeroSuccess ==
    ZeroSuccess =>
        /\ Rejected
        /\ req.response.statusCode = 500
        /\ req.filename \in store
        /\ store = req.pre.store \cup {req.filename}
        /\ userQuotas = req.pre.userQuotas
        /\ \A i \in 1..Len(req.log) : req.log[i] \notin {"delete", "decrementQuota"}

C19_Witness ==
    /\ ZeroSuccess
    /\ req.responses = <<401, 500>>
    /\ req.filename \in store
    /\ req.filename \notin req.pre.store

\* C20: for every target account the schedule payload's type is "video"
\* when the account's platform type is tiktok and "image" for every other
\* platform type, and the payload's media URL and thumbnail are one and the
\* same URL, built from the key of the stored object, for all targets of
\* the upload.
C20_PayloadPerPlatform ==
    \A i \in 1..Len(req.scheduled) :
        /\ Targets[i].type = "tiktok" => req.scheduled[i].type = "video"
        /\ Targets[i].type # "tiktok" => req.scheduled[i].type = "image"
        /\ req.scheduled[i].accountId = Targets[i].id
        /\ req.scheduled[i].mediaUrl = <<"https://post.komen.autos/", req.filename>>
        /\ req.scheduled[i].thumbnail = req.scheduled[i].mediaUrl
        /\ req.scheduled[i].mediaUrl = req.scheduled[1].mediaUrl
        /\ req.filename \in store
        /\ req.putAt # 0

C20_Witness ==
    /\ Len(req.scheduled) = 3
    /\ req.scheduled[1].type = "video"
    /\ req.scheduled[2].type = "image"
    /\ req.scheduled[3].type = "image"
    /\ req.scheduled[3].mediaUrl = req.scheduled[1].mediaUrl
    /\ req.filename \in store

(***************************************************************************)
(* Properties of deleteUpload.                                             *)
(***************************************************************************)
\* a deleteUpload call of process p has returned or thrown
Deleted(p) == del[p].pc = "done"

\* the rows of the file the call of process p names, now and when it began
RowsOf(p) == SelectUpload(uploads, del[p].filename)
RowsBefore(p) == SelectUpload(del[p].pre.uploads, del[p].filename)

\* the call of process p left the file deleted: no error, no object, the
\* row (if any) marked as deleted, the quota table as it was
CleanlyDeleted(p) ==
    /\ ~del[p].threw
    /\ del[p].filename \notin store
    /\ \A u \in RowsOf(p) : u.isDeleted
    /\ userQuotas = del[p].pre.userQuotas

C22_DeletedRowUntouched ==
    Deleted(1) => \A u \in RowsBefore(1) : u.isDeleted => u \in uploads

\* C23: deleteUpload removes the object also when no row matches the
\* filename; when the store delete throws, the call throws and the table
\* and the store are as they were, a row of the file that was not deleted
\* still having isDeleted = FALSE.
C23_OrphanDeletedFailurePropagates ==
    Deleted(1) =>
        /\ (RowsBefore(1) = {} /\ del[1].fault = "none") =>
              (~del[1].threw /\ del[1].filename \notin store /\ uploads = del[1].pre.uploads)
        /\ del[1].fault = "delete" =>
              /\ del[1].threw
              /\ uploads = del[1].pre.uploads
              /\ store = del[1].pre.store
              /\ \A u \in RowsBefore(1) : ~u.isDeleted => u \in uploads

C23_Witness ==
    /\ Deleted(1)
    /\ del[1].fault = "delete"
    /\ del[1].threw
    /\ \E u \in RowsOf(1) : ~u.isDeleted
    /\ del[1].last.filename = OrphanKey
    /\ del[1].last.fault = "none"
    /\ OrphanKey \notin store

(***************************************************************************)
(* Properties of the uploads table and the bucket under cleanup.           *)
(***************************************************************************)
\* every row of the table is still there after the step, with the same
\* scheduledDeletionAt, and still marked as deleted if it was
RowsKept ==
    \A u \in uploads :
        \E v \in uploads' :
            /\ v.id = u.id
            /\ v.scheduledDeletionAt = u.scheduledDeletionAt
            /\ u.isDeleted => v.isDeleted

\* C24: in every interleaving of an upload, cleanup runs and deleteUpload
\* calls, no row goes from isDeleted = TRUE back to FALSE, no row's
\* scheduledDeletionAt changes, and the object of a row with isDeleted = TRUE
\* is not in the bucket.
C24_DeletionIsFinal ==
    /\ [](\A u \in uploads : u.isDeleted => u.filename \notin store)
    /\ [][RowsKept]_vars

C24_Witness ==
    /\ sweep[1].pc = "done"
    /\ sweep[1].deleted = 1
    /\ del[2].pc = "done"
    /\ del[2].filename = DueRow.filename
    /\ ~del[2].threw
    /\ req.pc = "done"
    /\ req.uploadedFilename \in store
    /\ \E u \in uploads : u.id = DueRow.id /\ u.isDeleted /\ u.deletedAt # NoDate

\* the rows a cleanup run of process p selected, once it has selected
Selected(p) == {sweep[p].expiredUploads[i] : i \in DOMAIN sweep[p].expiredUploads}
HasSelected(p) == sweep[p].pc \in {"delete", "mark", "done"}

\* the select step of process 1 returns exactly the rows of the table that
\* are not marked as deleted and whose scheduledDeletionAt is at or before
\* the run's now
SelectsExactlyExpired ==
    (sweep[1].pc = "select" /\ sweep'[1].pc # "select") =>
        {sweep'[1].expiredUploads[i] : i \in DOMAIN sweep'[1].expiredUploads} =
            {u \in uploads : u.isDeleted = FALSE /\ u.scheduledDeletionAt <= sweep[1].now}

\* C25: a cleanup run selects exactly the rows with isDeleted = FALSE and
\* scheduledDeletionAt <= now.  The row created at StartTime with 48 hours
\* of retention, and its object, are as they were all through a run begun
\* before StartTime + 48h (at 47h); a run begun at or after it (at 49h)
\* selects the row if it is still there; a row marked as deleted is never
\* selected.
C25_SweepSelectsExpired ==
    /\ [](HasSelected(1) =>
            /\ \A u \in Selected(1) : ~u.isDeleted /\ u.scheduledDeletionAt <= sweep[1].now
            /\ DeletedRow \notin Selected(1)
            /\ (sweep[1].now < FreshRow.scheduledDeletionAt /\ FreshRow.filename \in LiveObjects(uploads))
                  => (FreshRow \in uploads /\ FreshRow.filename \in store
                      /\ FreshRow \notin Selected(1)))
    /\ [][SelectsExactlyExpired]_vars
    /\ [][(sweep[1].pc = "select" /\ sweep'[1].pc # "select" /\ FreshRow \in uploads
           /\ sweep[1].now >= StartTime + 48 * Hour)
            => sweep'[1].pc = "delete" /\ \E i \in DOMAIN sweep'[1].expiredUploads :
                                            sweep'[1].expiredUploads[i] = FreshRow]_vars

C25_Witness ==
    /\ sweep[1].pc = "done"
    /\ sweep[1].runs = 2
    /\ sweep[1].now = StartTime + 49 * Hour
    /\ FreshRow \in Selected(1)
    /\ sweep[1].deleted = Len(sweep[1].expiredUploads)
    /\ [FreshRow EXCEPT !.isDeleted = TRUE, !.deletedAt = StartTime + 49 * Hour] \in uploads
    /\ FreshRow.filename \notin store

\* a cleanup run begun 47 hours after the upload has returned and left the
\* row and its object alone
C25_WitnessEarly ==
    /\ sweep[1].pc = "done"
    /\ sweep[1].now = StartTime + 47 * Hour
    /\ FreshRow \in uploads
    /\ FreshRow.filename \in store

\* the files a cleanup run of process p reported as failed
FailedFiles(p) == {sweep[p].errors[i][1] : i \in DOMAIN sweep[p].errors}

\* C26: a cleanup run over k selected rows, whatever subset of the object
\* deletes and row updates throws, goes through all k rows and returns with
\* deleted + failed = k, failed the number of rows where something threw,
\* one entry of errors for each of them, and as deleted exactly the rows
\* whose object is gone and whose row is marked.
C26_SweepIsolatesFailures ==
    sweep[1].pc = "done" =>
        LET s == sweep[1]
            k == Len(s.expiredUploads) IN
        /\ k > 0 => s.upload = k + 1
        /\ s.deleted + s.failed = k
        /\ s.failed = s.faults
        /\ Len(s.errors) = s.failed
        /\ Cardinality(FailedFiles(1)) = s.failed
        /\ \A r \in Selected(1) :
             IF r.filename \in FailedFiles(1)
             THEN r \in uploads
             ELSE /\ r.filename \notin store
                  /\ [r EXCEPT !.isDeleted = TRUE, !.deletedAt = s.now] \in uploads

C26_Witness ==
    /\ sweep[1].pc = "done"
    /\ Len(sweep[1].expiredUploads) = 3
    /\ sweep[1].deleted = 2
    /\ sweep[1].failed = 1
    /\ sweep[1].errors = <<(<<sweep[1].expiredUploads[2].filename, "delete failed">>)>>
    /\ sweep[1].expiredUploads[2] \in uploads
    /\ sweep[1].expiredUploads[2].filename \in store

\* the row r after one deletion: marked, its object gone, nothing else of
\* the row changed
DeletedOnce(r) ==
    /\ r.filename \notin store
    /\ \E u \in uploads :
         /\ u.isDeleted
         /\ u.deletedAt # NoDate
         /\ [u EXCEPT !.isDeleted = FALSE, !.deletedAt = NoDate] = r
    /\ Cardinality({u \in uploads : u.id = r.id}) = 1

\* two cleanup runs have returned that both selected row r
BothSwept(r) ==
    /\ sweep[1].pc = "done" /\ sweep[2].pc = "done"
    /\ r \in Selected(1) \cap Selected(2)

\* a cleanup run of process p and a deleteUpload call of process 2 have
\* returned that both picked up row r while it was not marked
SweptAndDeleted(p, r) ==
    /\ sweep[p].pc = "done" /\ del[2].pc = "done"
    /\ r \in Selected(p)
    /\ r \in del[2].pre.uploads
    /\ del[2].filename = r.filename

\* C27: when two cleanup runs, or a cleanup run and a deleteUpload call,
\* overlap on the same expired row and neither the store nor the database
\* throws (deleting a missing key is no error), neither reports a failure
\* and the row and its object end as after a single deletion.
C27_OverlappingDeleters ==
    \A r \in {FreshRow, DueRow} :
        /\ (BothSwept(r) /\ sweep[1].faults = 0 /\ sweep[2].faults = 0) =>
              /\ sweep[1].failed = 0 /\ sweep[2].failed = 0
              /\ sweep[1].errors = <<>> /\ sweep[2].errors = <<>>
              /\ DeletedOnce(r)
        /\ \A p \in Procs :
             (SweptAndDeleted(p, r) /\ sweep[p].faults = 0 /\ del[2].fault = "none") =>
                /\ sweep[p].failed = 0
                /\ ~del[2].threw
                /\ DeletedOnce(r)

C27_Witness ==
    /\ BothSwept(DueRow)
    /\ sweep[1].faults = 0 /\ sweep[2].faults = 0
    /\ sweep[1].deleted = 1 /\ sweep[2].deleted = 1
    /\ SweptAndDeleted(1, DueRow)
    /\ del[2].fault = "none"

\* what a step of a cleanup run leaves alone
SweepFrame ==
    sweep' # sweep =>
        /\ userQuotas' = userQuotas
        /\ \A u \in uploads :
             u.scheduledDeletionAt > now =>
                /\ u \in uploads'
                /\ u.filename \in store => u.filename \in store'
        /\ Cardinality(uploads') = Cardinality(uploads)
        /\ \A u \in uploads :
             \E v \in uploads' : [v EXCEPT !.isDeleted = u.isDeleted, !.deletedAt = u.deletedAt] = u
        /\ store' \subseteq store
        /\ \A f \in store \ store' :
             \E u \in uploads : u.filename = f /\ ~u.isDeleted /\ u.scheduledDeletionAt <= now

\* C28: no step of a cleanup run changes a quota row, the row or the object
\* of an upload whose scheduledDeletionAt is after now, or the object of
\* anything but an expired row; of the rows it processes it changes only
\* isDeleted and deletedAt.
C28_SweepFrame == [][SweepFrame]_vars

C28_Witness ==
    /\ sweep[1].pc = "done"
    /\ sweep[1].deleted = 1
    /\ [DueRow EXCEPT !.isDeleted = TRUE, !.deletedAt = sweep[1].now] \in uploads
    /\ FreshRow.scheduledDeletionAt > now
    /\ FreshRow \in uploads
    /\ FreshRow.filename \in store
    /\ OrphanKey \in store
    /\ userQuotas = {NearLimit("u1")}

(***************************************************************************)
(* Properties of the rate limiter.                                         *)
(***************************************************************************)
\* the requests the limiter of key k passed on (not counting those passed
\* on because KV threw) in the window that ends with the j-th of them
AdmittedInWindow(k, j) ==
    {i \in 1..j : admitted[k][i] > admitted[k][j] - ConfigOf(k).window}

\* C29: under every key the limiter passes on at most config.requests
\* requests within one window of config.window seconds, and a request that
\* finds the stored count at the limit is answered with 429 without the
\* next handler being run.
C29_AtMostLimitPerWindow ==
    /\ \A k \in Keys : \A j \in DOMAIN admitted[k] :
         Cardinality(AdmittedInWindow(k, j)) <= ConfigOf(k).requests
    /\ \A p \in Procs :
         (rl[p].pc = "done" /\ ~rl[p].failedOpen /\ rl[p].current >= rl[p].config.requests) =>
            (rl[p].statusCode = 429 /\ rl[p].nextRuns = 0)

(***************************************************************************)
(* The limits under concurrent uploads.                                    *)
(***************************************************************************)
\* C30: when concurrent uploads of one user each call checkQuota and, if
\* allowed, incrementQuota, within one window, no counter of the user's row
\* exceeds its limit.
C30_LimitsHoldUnderConcurrency ==
    \A q \in userQuotas :
        /\ q.dailyUploads <= MAX_DAILY_UPLOADS
        /\ q.monthlyUploads <= MAX_MONTHLY_UPLOADS
        /\ q.dailyBytesUsed <= MAX_DAILY_BYTES
        /\ q.monthlyBytesUsed <= MAX_MONTHLY_BYTES

(***************************************************************************)
(* Lazy creation, and decrement as the inverse of increment.               *)
(***************************************************************************)
\* C31: after any interleaving of checkQuota calls, also of two first calls
\* for a user without a row, the user has exactly one row and every call
\* that has ended has returned a decision and not thrown.
C31_LazyCreationOneRow ==
    /\ \A u \in Users : Cardinality(SelectQuota(userQuotas, u)) <= 1
    /\ \A p \in Procs :
         (call[p].op = "check" /\ call[p].pc = "done") =>
            /\ ~call[p].threw
            /\ call[p].result # NoResult
            /\ Cardinality(SelectQuota(userQuotas, call[p].userId)) = 1

\* the four counters of the row of user u in a table
Counters(table, u) ==
    LET q == Row(SelectQuota(table, u)) IN
    <<q.dailyUploads, q.monthlyUploads, q.dailyBytesUsed, q.monthlyBytesUsed>>

\* process p has made incrementQuota(u, b) on an existing row and process q
\* has then made decrementQuota(u, b), beginning in the very table the
\* increment left; the two are the only calls made, so that nothing else
\* has touched the row in between
UndoneBy(p, q) ==
    /\ calls = 2
    /\ call[p].op = "increment" /\ call[p].pc = "done" /\ ~call[p].threw
    /\ call[q].op = "decrement" /\ call[q].pc = "done"
    /\ call[q].userId = call[p].userId
    /\ call[q].fileSizeBytes = call[p].fileSizeBytes
    /\ SelectQuota(call[p].pre, call[p].userId) # {}
    /\ call[q].pre = UpdateQuota(call[p].pre, call[p].userId,
                        Incremented(Row(SelectQuota(call[p].pre, call[p].userId)),
                                    call[p].fileSizeBytes, call[p].now))

\* C32: incrementQuota(u, b) on an existing row followed directly by
\* decrementQuota(u, b) leaves the four counters of the row as they were
\* before the increment.
C32_DecrementUndoesIncrement ==
    \A p, q \in Procs :
        UndoneBy(p, q) =>
            Counters(userQuotas, call[p].userId) = Counters(call[p].pre, call[p].userId)

C32_Witness ==
    /\ UndoneBy(1, 2)
    /\ call[1].fileSizeBytes = MAX_DAILY_BYTES
    /\ Counters(call[1].pre, call[1].userId)[1] = MAX_DAILY_UPLOADS - 1
    /\ Counters(call[2].pre, call[1].userId)[1] = MAX_DAILY_UPLOADS
    /\ Counters(userQuotas, call[1].userId)[1] = MAX_DAILY_UPLOADS - 1

(***************************************************************************)
(* Counting and rolling back uploads across a window reset.  The calls are *)
(* made one after the other; a process keeps the record of its last call,  *)
(* so the increment of an upload A stays on one process while the other    *)
(* makes the later calls.  A rollback is decrementQuota with the user and  *)
(* the size of an increment that went through.                             *)
(***************************************************************************)
MaxRollbackCalls == 4

RollbackCheckQuota ==
    /\ \E p \in Procs : Quiet /\ Begin(p, "check", "u1", 1, MaxRollbackCalls)
    /\ UNCHANGED <<uploadVars, lifecycleVars, limiterVars>>

RollbackIncrementQuota ==
    /\ \E p \in Procs, b \in ByteArgs :
         Quiet /\ Begin(p, "increment", "u1", b, MaxRollbackCalls)
    /\ UNCHANGED <<uploadVars, lifecycleVars, limiterVars>>

\* the incrementQuota call of process p has gone through
Counted(p) ==
    /\ call[p].op = "increment"
    /\ call[p].pc = "done"
    /\ ~call[p].threw

RollbackDecrementQuota ==
    /\ \E p, q \in Procs :
         /\ p # q
         /\ Counted(p)
         /\ Quiet
         /\ Begin(q, "decrement", call[p].userId, call[p].fileSizeBytes,
                  MaxRollbackCalls)
    /\ UNCHANGED <<uploadVars, lifecycleVars, limiterVars>>

\* a day passes between two calls
RollbackTick ==
    /\ Quiet /\ Tick(dayInMs)
    /\ UNCHANGED <<uploadVars, lifecycleVars, limiterVars>>

InitRollback ==
    /\ now = StartTime
    /\ userQuotas \in {{}, {NewQuota("u1", StartTime)}, {NearLimit("u1")}}
    /\ call = [p \in Procs |-> IdleCall]
    /\ calls = 0
    /\ ticks = 0
    /\ NoUploads

NextRollback ==
    \/ RollbackCheckQuota
    \/ RollbackIncrementQuota
    \/ RollbackDecrementQuota
    \/ RollbackTick
    \/ Step

SpecRollback == InitRollback /\ [][NextRollback]_vars

\* process q has rolled back the upload that process p counted, in a daily
\* window that was opened after p counted it and holds one upload
RolledBackAfterReset(p, q) ==
    /\ Counted(p)
    /\ call[q].op = "decrement" /\ call[q].pc = "done"
    /\ call[q].userId = call[p].userId
    /\ call[q].fileSizeBytes = call[p].fileSizeBytes
    /\ call[q].now >= call[p].now
    /\ SelectQuota(call[q].pre, call[q].userId) # {}
    /\ LET w == Row(SelectQuota(call[q].pre, call[q].userId)) IN
          /\ w.lastResetDaily > call[p].now
          /\ w.dailyUploads = 1

\* C33: a compensating decrement never removes quota accrued in a later
\* window or by another upload: when upload A's increment is followed by a
\* lazy window reset and then by upload B's increment, the later
\* decrementQuota for A leaves the counters of the new window at exactly
\* B's contribution, dailyUploads = 1 and dailyBytesUsed = B's size.
C33_RollbackSparesLaterWindow ==
    \A p, q \in Procs :
        RolledBackAfterReset(p, q) =>
            LET w == Row(SelectQuota(call[q].pre, call[q].userId))
                r == Row(SelectQuota(userQuotas, call[q].userId)) IN
               /\ r.dailyUploads = 1
               /\ r.dailyBytesUsed = w.dailyBytesUsed

(***************************************************************************)
(* Cleanup on a schedule that never ends: run after run over the table,    *)
(* with time passing.  A store operation may throw any number of times,    *)
(* but not forever: the delete and the update each go through again and    *)
(* again as long as they are tried again and again.                        *)
(***************************************************************************)

\* lines 225-231: a cleanup run begins; the runs are not counted
RetryBegin ==
    /\ sweep[1].pc \in {"idle", "done"}
    /\ sweep' = [sweep EXCEPT ![1] =
                   [IdleSweep EXCEPT !.pc = "select", !.now = now, !.runs = 1]]
    /\ UNCHANGED <<uploads, store>>

RetryStep ==
    /\ UNCHANGED <<ledgerVars, req, nextId, requests, okUploads, del, limiterVars>>
    /\ \/ RetryBegin
       \/ SweepSelect(1)
       \/ SweepDelete(1)
       \/ SweepMark(1)

\* lines 259-262: r2Bucket.delete returns
DeleteSucceeds == RetryStep /\ sweep[1].pc = "delete" /\ sweep'[1].pc = "mark"

\* lines 264-270: the update returns
MarkSucceeds ==
    RetryStep /\ sweep[1].pc = "mark" /\ sweep'[1].deleted = sweep[1].deleted + 1

NextRetry ==
    \/ RetryStep
    \/ ReapTick

SpecRetry ==
    /\ InitLifecycle
    /\ [][NextRetry]_vars
    /\ WF_vars(RetryStep)
    /\ SF_vars(DeleteSucceeds)
    /\ SF_vars(MarkSucceeds)

\* the rows the tables begin with that are not marked as deleted
LiveRows == {FreshRow, DueRow, OverdueRow}

\* every row the current run has failed on is still there, not marked as
\* deleted and due at the time of the run, so that the select of any later
\* run returns it
FailedRowsStayExpired ==
    \A i \in 1..Len(sweep[1].errors) :
        \E u \in ExpiredUploads(uploads, sweep[1].now) :
            u.filename = sweep[1].errors[i][1]

\* the row u is due and not marked as deleted
Expired(u) == u \in ExpiredUploads(uploads, now)

\* the row u is marked as deleted and its object is gone
Reaped(u) ==
    /\ \E v \in uploads : v.id = u.id /\ v.isDeleted
    /\ u.filename \notin store

\* C34: a record that a sweep failed on is retried: when the object delete
\* or the record update throws for a record, the record still has
\* isDeleted = false after the sweep and the next sweep selects it again;
\* with sweeps repeated and store operations that eventually succeed, every
\* expired record eventually has isDeleted = true and its object is absent.
C34_FailedRowsAreRetried ==
    /\ []FailedRowsStayExpired
    /\ \A u \in LiveRows : Expired(u) ~> Reaped(u)

\* a run is about to delete the object of a row whose object an earlier
\* run has removed already: that run failed on the update, and this one has
\* selected the row again
C34_Witness ==
    /\ sweep[1].pc = "delete"
    /\ sweep[1].expiredUploads[sweep[1].upload] = DueRow
    /\ DueRow \in uploads
    /\ DueRow.filename \notin store

(***************************************************************************)
(* A burst of requests of one client, handled by two workers at once       *)
(* within one second: the clock stands still.                              *)
(***************************************************************************)
NextBurst ==
    \/ LimiterRequest
    \/ LimiterStep

SpecBurst == InitLimiter /\ [][NextBurst]_vars

\* the count a get of the key returns at time t: 0 for a key that holds
\* nothing or whose entry has expired
StoredCount(table, key, t) ==
    IF table[key] # NoEntry /\ t < table[key].expiresAt
    THEN parseInt(table[key].value)
    ELSE 0

\* a request whose get or put threw has been passed to the next handler
FailsOpen ==
    \A p \in Procs :
        (rl[p].pc = "done" /\ rl[p].failedOpen) =>
            (rl[p].nextRuns = 1 /\ rl[p].statusCode # 429)

\* the step that answers a request with 429 writes nothing to KV
RejectedWritesNothing ==
    \A p \in Procs :
        (rl[p].statusCode # 429 /\ rl'[p].statusCode = 429) =>
            /\ kv' = kv
            /\ rl'[p].pc = "done"
            /\ rl'[p].nextRuns = 0

\* the step that admits a request leaves the stored count one higher
AdmittedAddsOne ==
    \A p \in Procs :
        (rl[p].pc = "put" /\ rl'[p].pc = "next") =>
            StoredCount(kv', rl[p].key, now') = StoredCount(kv, rl[p].key, now) + 1

\* C35: the rate limiter fails open and counts only admitted requests: when
\* the KV read or write throws, the request is passed to the next handler
\* instead of being rejected; a request rejected with 429 does not increase
\* the stored count and does not renew its expiry; every admitted request
\* increases the stored count by exactly 1.
C35_FailOpenCountsAdmitted ==
    /\ []FailsOpen
    /\ [][RejectedWritesNothing]_vars
    /\ [][AdmittedAddsOne]_vars

\* the limiter fails open and a rejected request writes nothing, whatever
\* the interleaving
FailsOpenRejectedUncounted ==
    /\ []FailsOpen
    /\ [][RejectedWritesNothing]_vars

(***************************************************************************)
(* The platform filter.                                                    *)
(***************************************************************************)
\* the request has resolved accounts and its platform filter matches none
FilterMatchesNone ==
    /\ Len(req.accounts) > 0
    /\ req.form.platforms.given
    /\ \A i \in 1..Len(req.accounts) : req.accounts[i].type \notin req.form.platforms.list

\* C36: when the caller's platform filter matches none of the resolved
\* accounts, the upload request makes no createSchedule call, returns the
\* zero-success error response (statusCode 500) with an empty results
\* array, and leaves the stored object in the store without any rollback.
C36_NoTargetNoSchedule ==
    FilterMatchesNone =>
        /\ req.scheduled = <<>>
        /\ \A i \in 1..Len(req.log) : req.log[i] \notin {"createSchedule", "delete"}
        /\ req.filename \in store
        /\ req.pc = "done" =>
              req.response = ErrorResponse(500, "failed_to_schedule", <<>>)

C36_Witness ==
    /\ FilterMatchesNone
    /\ req.pc = "done"
    /\ req.accounts = <<Tiktok, Instagram, Facebook>>
    /\ req.response.statusCode = 500
    /\ req.response.results = <<>>
    /\ req.filename \in store

====
